---------------------------- MODULE Spec2Model ----------------------------
(***************************************************************************)
(* A model of practicebank's problem tree (practicebank/types.py) and of   *)
(* the LaTeX parser that builds it (practicebank/parsers/latex.py).        *)
(*                                                                         *)
(* Python objects live in a heap: a sequence of records, an object's id    *)
(* being its index.  A node is [type, attrs, kids]: its class name, the    *)
(* values of the attributes its class declares, and - for an internal      *)
(* node - the list _children of the ids of its children.                   *)
(*                                                                         *)
(* Strings are sequences of characters, so that splitting, replacing and   *)
(* joining are computed and not assumed.                                   *)
(***************************************************************************)
EXTENDS Integers, Sequences, FiniteSets, TLC

VARIABLES
    heap,   \* the node objects constructed so far
    ret,    \* the last call of the node API: its arguments and its outcome
    doc,    \* parse: the markup tree the tokenizer produced
    pc,     \* parse: where the call is
    tree,   \* parse: the tree _convert_soup_node returned (its id), 0 when none
    out,    \* parse: the tree _paragraphize returned (its id), 0 when none
    raised  \* parse: the exception that ended the call, and what it names

parseVars == <<doc, pc, tree, out, raised>>

vars == <<heap, ret, doc, pc, tree, out, raised>>

(***************************************************************************)
(* Bounds of the model.                                                    *)
(***************************************************************************)
\* the node API: objects constructed in one behaviour
MaxNodes == 3
\* the node API: children given to one constructor or attached to one node
MaxKids == 2

(***************************************************************************)
(* types.py: the classes.                                                  *)
(***************************************************************************)
InternalTypes ==
    {"Problem", "Subproblem", "Paragraph", "MultipleChoices", "MultipleSelect",
     "Choice", "FillInTheBlank", "Solution"}

TextTypes == {"NormalText", "BoldText", "ItalicText"}

LeafTypes ==
    TextTypes \cup {"DisplayMath", "InlineMath", "Code", "InlineCode", "Image",
                    "TrueFalse"}

NodeTypes == InternalTypes \cup LeafTypes

\* the classes an object of class t is an instance of (its concrete class and
\* the abstract bases it derives from)
Mro(t) ==
    {t} \cup (IF t \in InternalTypes THEN {"InternalNode"} ELSE {"LeafNode"})
        \cup (IF t \in TextTypes THEN {"TextNode"} ELSE {})

\* isinstance(node, classes) for a tuple of classes
IsInstance(t, classes) == \E i \in 1..Len(classes) : classes[i] \in Mro(t)

\* the class attribute attrs: the names of the attributes a class declares
Attrs(t) ==
    CASE t \in TextTypes -> <<"text">>
      [] t \in {"DisplayMath", "InlineMath"} -> <<"latex">>
      [] t \in {"Code", "InlineCode"} -> <<"language", "code">>
      [] t = "Image" -> <<"relative_path", "data">>
      [] t = "Choice" -> <<"correct">>
      [] t = "TrueFalse" -> <<"solution">>
      [] OTHER -> <<>>

ProblemAllowed ==
    <<"Subproblem", "Code", "DisplayMath", "Image", "MultipleChoices",
      "MultipleSelect", "TrueFalse", "FillInTheBlank", "Solution", "NormalText",
      "BoldText", "ItalicText", "InlineMath", "InlineCode", "Paragraph">>

ParagraphAllowed ==
    <<"NormalText", "BoldText", "ItalicText", "InlineMath", "InlineCode">>

\* Choice.allowed_child_types without Paragraph
ChoiceAllowed_NoParagraph ==
    <<"NormalText", "BoldText", "ItalicText", "InlineMath", "DisplayMath", "Code",
      "InlineCode", "Image">>

ChoiceAllowed ==
    <<"NormalText", "BoldText", "ItalicText", "InlineMath", "DisplayMath", "Code",
      "InlineCode", "Image", "Paragraph">>

\* Subproblem taking Problem's tuple whole, without the [1:]
AllowedChildTypes_NoSlice(t) ==
    CASE t \in {"Problem", "Subproblem"} -> ProblemAllowed
      [] t = "Paragraph" -> ParagraphAllowed
      [] t \in {"MultipleChoices", "MultipleSelect"} -> <<"Choice">>
      [] t \in {"Choice", "Solution", "FillInTheBlank"} -> ChoiceAllowed
      [] OTHER -> <<>>

\* Paragraph accepting Paragraphs as well
AllowedChildTypes_NestedParagraphs(t) ==
    CASE t = "Problem" -> ProblemAllowed
      [] t = "Paragraph" -> Append(ParagraphAllowed, "Paragraph")
      [] t = "Subproblem" -> Tail(ProblemAllowed)
      [] t \in {"MultipleChoices", "MultipleSelect"} -> <<"Choice">>
      [] t \in {"Choice", "Solution", "FillInTheBlank"} -> ChoiceAllowed
      [] OTHER -> <<>>

\* the class attribute allowed_child_types, a tuple of classes
AllowedChildTypes(t) ==
    CASE t = "Problem" -> ProblemAllowed
      [] t = "Paragraph" -> ParagraphAllowed
      [] t = "Subproblem" -> Tail(ProblemAllowed)
      [] t \in {"MultipleChoices", "MultipleSelect"} -> <<"Choice">>
      [] t \in {"Choice", "Solution", "FillInTheBlank"} -> ChoiceAllowed
      [] OTHER -> <<>>

(***************************************************************************)
(* types.py: construction and add_child, as functions of the heap.  Each   *)
(* returns [h, id, exc]: the heap after the call, the object returned (0   *)
(* when the call raised) and the exception raised ("none" when none).      *)
(***************************************************************************)
NewObject(h, t, a) ==
    [h |-> Append(h, [type |-> t, attrs |-> a, kids |-> <<>>]),
     id |-> Len(h) + 1, exc |-> "none"]

\* add_child appending before it checks the type
AddChildTo_AppendsThenChecks(h, p, c) ==
    IF ~IsInstance(h[c].type, AllowedChildTypes(h[p].type))
    THEN [h |-> [h EXCEPT ![p].kids = Append(@, c)], id |-> 0, exc |-> "IllegalChild"]
    ELSE [h |-> [h EXCEPT ![p].kids = Append(@, c)], id |-> p, exc |-> "none"]

\* add_child inserting at the front
AddChildTo_Prepends(h, p, c) ==
    IF ~IsInstance(h[c].type, AllowedChildTypes(h[p].type))
    THEN [h |-> h, id |-> 0, exc |-> "IllegalChild"]
    ELSE [h |-> [h EXCEPT ![p].kids = <<c>> \o @], id |-> p, exc |-> "none"]

\* add_child refusing a child that is already attached to this parent
AddChildTo_SkipsDuplicate(h, p, c) ==
    IF ~IsInstance(h[c].type, AllowedChildTypes(h[p].type))
    THEN [h |-> h, id |-> 0, exc |-> "IllegalChild"]
    ELSE IF \E i \in 1..Len(h[p].kids) : h[p].kids[i] = c
    THEN [h |-> h, id |-> p, exc |-> "none"]
    ELSE [h |-> [h EXCEPT ![p].kids = Append(@, c)], id |-> p, exc |-> "none"]

\* InternalNode.add_child: the type check, then the append
AddChildTo(h, p, c) ==
    IF ~IsInstance(h[c].type, AllowedChildTypes(h[p].type))
    THEN [h |-> h, id |-> 0, exc |-> "IllegalChild"]
    ELSE [h |-> [h EXCEPT ![p].kids = Append(@, c)], id |-> p, exc |-> "none"]

RECURSIVE AddChildren(_, _, _)
\* the loop of InternalNode.__init__: add_child for each child in turn, the
\* first exception ending the loop
AddChildren(h, p, cs) ==
    IF cs = <<>> THEN [h |-> h, id |-> p, exc |-> "none"]
    ELSE LET r == AddChildTo(h, p, Head(cs))
         IN  IF r.exc # "none" THEN r ELSE AddChildren(r.h, p, Tail(cs))

\* type(...)(children=cs, **a): InternalNode.__init__ (and Choice.__init__)
NewInternalNode(h, t, a, cs) ==
    LET o == NewObject(h, t, a)
        r == AddChildren(o.h, o.id, cs)
    IN  r

(***************************************************************************)
(* types.py: structural equality.                                          *)
(***************************************************************************)
\* _attributes_equal: the attributes self's class declares, compared by name
AttributesEqual(h, a, b) ==
    \A i \in 1..Len(Attrs(h[a].type)) :
        h[a].attrs[Attrs(h[a].type)[i]] = h[b].attrs[Attrs(h[a].type)[i]]

\* the pairs zip(self._children, other._children) yields: as many as the
\* shorter list has
ZipLen(h, a, b) ==
    IF Len(h[a].kids) < Len(h[b].kids) THEN Len(h[a].kids) ELSE Len(h[b].kids)

RECURSIVE NodeEq(_, _, _)
\* __eq__ without the comparison of the numbers of children: zip stops at the
\* shorter list
NodeEq_NoLengthCheck(h, a, b) ==
    IF ~(h[a].type \in Mro(h[b].type)) THEN FALSE
    ELSE IF h[a].type \in LeafTypes THEN AttributesEqual(h, a, b)
    ELSE /\ AttributesEqual(h, a, b)
         /\ \A i \in 1..ZipLen(h, a, b) : NodeEq(h, h[a].kids[i], h[b].kids[i])

\* InternalNode.__eq__ and LeafNode.__eq__
NodeEq(h, a, b) ==
    IF ~(h[a].type \in Mro(h[b].type)) THEN FALSE
    ELSE IF h[a].type \in LeafTypes THEN AttributesEqual(h, a, b)
    ELSE IF Len(h[a].kids) # Len(h[b].kids) THEN FALSE
    ELSE /\ AttributesEqual(h, a, b)
         /\ \A i \in 1..ZipLen(h, a, b) : NodeEq(h, h[a].kids[i], h[b].kids[i])

(***************************************************************************)
(* The node API driven by a client: objects are constructed and attached   *)
(* in any order, with any arguments.                                       *)
(***************************************************************************)
\* the strings a client gives as attribute values
StrVals == {<<"a">>}

\* the keyword arguments of a class's constructor: a value for each attribute
AttrSpace(t) ==
    CASE t \in TextTypes -> [text : StrVals]
      [] t \in {"DisplayMath", "InlineMath"} -> [latex : StrVals]
      [] t \in {"Code", "InlineCode"} -> [language : StrVals, code : StrVals]
      [] t = "Image" -> [relative_path : StrVals, data : StrVals]
      [] t = "Choice" -> [correct : BOOLEAN]
      [] t = "TrueFalse" -> [solution : BOOLEAN]
      [] OTHER -> {<<>>}

Ids(h) == 1..Len(h)

InternalIds(h) == {n \in Ids(h) : h[n].type \in InternalTypes}

\* the children lists a client can pass to a constructor: existing objects
KidLists(h) == UNION {[1..n -> Ids(h)] : n \in 0..MaxKids}

NoCall == [op |-> "none", node |-> 0, child |-> 0, exc |-> "none"]

NoException == [exc |-> "none", what |-> ""]

ParseIdle ==
    /\ doc = <<>>
    /\ pc = "idle"
    /\ tree = 0
    /\ out = 0
    /\ raised = NoException

Init ==
    /\ heap = <<>>
    /\ ret = NoCall
    /\ ParseIdle

\* a leaf class's constructor: types.NormalText("a"), types.TrueFalse(True), ...
NewLeaf ==
    \E t \in LeafTypes : \E a \in AttrSpace(t) :
        /\ Len(heap) < MaxNodes
        /\ heap' = NewObject(heap, t, a).h
        /\ ret' = [op |-> "new", node |-> Len(heap) + 1, child |-> 0, exc |-> "none"]
        /\ UNCHANGED parseVars

\* an internal class's constructor, with or without children; when add_child
\* raises, the constructor raises and the object is never returned
NewInternal ==
    \E t \in InternalTypes : \E a \in AttrSpace(t) : \E cs \in KidLists(heap) :
        /\ Len(heap) < MaxNodes
        /\ LET r == NewInternalNode(heap, t, a, cs)
           IN  /\ heap' = IF r.exc = "none" THEN r.h ELSE heap
               /\ ret' = [op |-> "new", node |-> r.id, child |-> 0, exc |-> r.exc]
        /\ UNCHANGED parseVars

\* parent.add_child(child) for any two objects
AddChild ==
    \E p \in InternalIds(heap) : \E c \in Ids(heap) :
        /\ Len(heap[p].kids) < MaxKids
        /\ LET r == AddChildTo(heap, p, c)
           IN  /\ heap' = r.h
               /\ ret' = [op |-> "add_child", node |-> p, child |-> c, exc |-> r.exc]
        /\ UNCHANGED parseVars

Next == NewLeaf \/ NewInternal \/ AddChild

Spec == Init /\ [][Next]_vars

(***************************************************************************)
(* Trees as values, and their construction on the heap.  A tree value is   *)
(* [type, attrs, kids], kids being a sequence of tree values; Build makes  *)
(* the objects bottom-up with the constructors of types.py, as a client or *)
(* the parser does: the children first, then the parent with               *)
(* children=[...].                                                         *)
(***************************************************************************)
Leaf(t, a) == [type |-> t, attrs |-> a, kids |-> <<>>]

Inner(t, a, ks) == [type |-> t, attrs |-> a, kids |-> ks]

RECURSIVE Build(_, _)
RECURSIVE BuildAll(_, _)
\* [h, id, exc]: the heap with the objects of tree value tv added
Build(h, tv) ==
    IF tv.type \in LeafTypes THEN NewObject(h, tv.type, tv.attrs)
    ELSE LET ks == BuildAll(h, tv.kids)
         IN  IF ks.exc # "none" THEN [h |-> ks.h, id |-> 0, exc |-> ks.exc]
             ELSE NewInternalNode(ks.h, tv.type, tv.attrs, ks.ids)

\* [h, ids, exc]: the same for a sequence of tree values
BuildAll(h, tvs) ==
    IF tvs = <<>> THEN [h |-> h, ids |-> <<>>, exc |-> "none"]
    ELSE LET r == Build(h, Head(tvs))
         IN  IF r.exc # "none" THEN [h |-> r.h, ids |-> <<>>, exc |-> r.exc]
             ELSE LET rest == BuildAll(r.h, Tail(tvs))
                  IN  [h |-> rest.h, ids |-> <<r.id>> \o rest.ids, exc |-> rest.exc]

\* the sequences over S of length at most n
SeqUpTo(S, n) == UNION {[1..k -> S] : k \in 0..n}

(***************************************************************************)
(* Strings.  A string is a sequence of characters; a word whose letters    *)
(* play no part ("python", "rectangle") is one character.                  *)
(***************************************************************************)
NL == "\n"

CR == "\r"

SP == " "

\* the placeholder \thisdir/ of a path
ThisDir == "\\thisdir/"

RECURSIVE FindParBreak(_, _)
\* str.find("\n\n", i): the first index from i on where two newlines start, 0
\* when there is none
FindParBreak(s, i) ==
    IF i + 1 > Len(s) THEN 0
    ELSE IF s[i] = NL /\ s[i + 1] = NL THEN i
    ELSE FindParBreak(s, i + 1)

RECURSIVE SplitParagraphs(_)
\* text.split("\n\n"): the pieces between the occurrences found left to right
SplitParagraphs(s) ==
    LET i == FindParBreak(s, 1)
    IN  IF i = 0 THEN <<s>>
        ELSE <<SubSeq(s, 1, i - 1)>> \o SplitParagraphs(SubSeq(s, i + 2, Len(s)))

\* s.replace(r"\thisdir/", "")
StripThisDir(s) == SelectSeq(s, LAMBDA c : c # ThisDir)

RECURSIVE SplitLines(_)
\* the lines of s, without their newlines
SplitLines(s) ==
    IF \A i \in 1..Len(s) : s[i] # NL THEN <<s>>
    ELSE LET i == CHOOSE j \in 1..Len(s) : s[j] = NL /\ \A k \in 1..(j - 1) : s[k] # NL
         IN  <<SubSeq(s, 1, i - 1)>> \o SplitLines(SubSeq(s, i + 1, Len(s)))

RECURSIVE JoinLines(_)
JoinLines(ls) ==
    IF Len(ls) = 1 THEN ls[1] ELSE ls[1] \o <<NL>> \o JoinLines(Tail(ls))

\* the number of spaces a line starts with
Indent(l) ==
    IF \A i \in 1..Len(l) : l[i] = SP THEN Len(l)
    ELSE (CHOOSE j \in 1..Len(l) : l[j] # SP /\ \A k \in 1..(j - 1) : l[k] = SP) - 1

IsBlank(l) == \A i \in 1..Len(l) : l[i] = SP

\* textwrap.dedent for text indented with spaces: lines of spaces only become
\* empty, the other lines lose the indentation they all share
Dedent(s) ==
    LET ls == SplitLines(s)
        full == {i \in 1..Len(ls) : ~IsBlank(ls[i])}
        margin == IF full = {} THEN 0
                  ELSE CHOOSE m \in {Indent(ls[i]) : i \in full} :
                           \A i \in full : m <= Indent(ls[i])
    IN  JoinLines([i \in 1..Len(ls) |->
                      IF IsBlank(ls[i]) THEN <<>>
                      ELSE SubSeq(ls[i], margin + 1, Len(ls[i]))])

(***************************************************************************)
(* The markup tree the tokenizer (TexSoup) hands to the parser.  A markup  *)
(* node is [kind, name, args, contents, str]:                              *)
(*   kind      "str" for a span of raw text, else the class of node.expr:  *)
(*             "env" (TexNamedEnv, TexEnv), "cmd" (TexCmd), "other";       *)
(*   name      node.name;                                                  *)
(*   args      the strings node.args[i].string;                            *)
(*   contents  node.contents, markup nodes again;                          *)
(*   str       node.string or node.expr.string, and the text of a span.    *)
(***************************************************************************)
Txt(s) == [kind |-> "str", name |-> "", args |-> <<>>, contents |-> <<>>, str |-> s]

Env(name, args, contents) ==
    [kind |-> "env", name |-> name, args |-> args, contents |-> contents, str |-> <<>>]

\* an environment or delimiter pair with a verbatim body
Verb(name, args, s) ==
    [kind |-> "env", name |-> name, args |-> args, contents |-> <<>>, str |-> s]

Cmd(name, args, s) ==
    [kind |-> "cmd", name |-> name, args |-> args, contents |-> <<>>, str |-> s]

\* the root TexSoup returns for a document with the given top-level nodes
Soup(contents) == Env("[tex]", <<>>, contents)

\* hasattr(node, "name"): a str has no name
HasName(n) == n.kind # "str"

(***************************************************************************)
(* latex.py: the dispatch tables and the conversions.  A conversion        *)
(* returns [h, id, exc, what]: the heap after it, the node made, the       *)
(* exception raised ("none" when none) and what the exception names.       *)
(***************************************************************************)
ENV_PARSERS ==
    {"[tex]", "prob", "subprob", "$", "$$", "displaymath", "align", "minted",
     "soln", "choices"}

CMD_PARSERS ==
    {"textbf", "textit", "mintinline", "Tf", "tF", "includegraphics",
     "inputminted"}

\* the files of the problem directory that can be read, with their bytes
Files ==
    (<<"image.png">> :> <<"png-bytes", CR, NL>>) @@ (<<"code.py">> :> <<"x", NL>>)
        @@ (<<"crlf.py">> :> <<"x", CR, NL, "y", CR>>)

\* name = value, then the statements K that follow: the value is computed once
Bind(value, K(_)) == K(value)

Ok(r) == [h |-> r.h, id |-> r.id, exc |-> "none", what |-> ""]

Raise(h, e, w) == [h |-> h, id |-> 0, exc |-> e, what |-> w]

\* the result of a constructor call of types.py as the result of a conversion
FromNode(r) == [h |-> r.h, id |-> r.id, exc |-> r.exc, what |-> ""]

\* raise ValueError(f"Unknown node type: {node.name}")
UnknownNodeType(h, n) == Raise(h, "ValueError", n.name)

\* _is_choice
IsChoice(n) == HasName(n) /\ n.name \in {"choice", "correctchoice"}

RECURSIVE SegmentFrom(_, _, _)
\* the loop of _segment, from the state (segments, current_segment) on
SegmentFrom(items, segments, current) ==
    IF items = <<>>
    THEN IF current # <<>> THEN Append(segments, current) ELSE segments
    ELSE IF IsChoice(Head(items))
    THEN IF current # <<>>
         THEN SegmentFrom(Tail(items), Append(segments, current), <<Head(items)>>)
         ELSE SegmentFrom(Tail(items), segments, Append(current, Head(items)))
    ELSE SegmentFrom(Tail(items), segments, Append(current, Head(items)))

\* _segment(iterable, _is_choice)
Segment(items) == SegmentFrom(items, <<>>, <<>>)

\* the loops of the prob conversion without the unwrapping of subprobset
ProbItems_KeepsWrapper(cs) == cs

RECURSIVE ProbItems(_)
\* the nodes the loops of the prob conversion convert and attach, in order: a
\* child, or for a child named subprobset its contents in its place
ProbItems(cs) ==
    IF cs = <<>> THEN <<>>
    ELSE (IF HasName(Head(cs)) /\ Head(cs).name = "subprobset"
          THEN Head(cs).contents ELSE <<Head(cs)>>) \o ProbItems(Tail(cs))

\* the style argument test of the choices conversion
IsRectangle(n) == n.args # <<>> /\ n.args[1] = <<"rectangle">>

\* the contents the choices conversion segments
ChoicesContents(n) == IF IsRectangle(n) THEN Tail(n.contents) ELSE n.contents

RECURSIVE ConvertSoupNode(_, _, _)
RECURSIVE ConvertAll(_, _, _)
RECURSIVE ConvertAndAdd(_, _, _, _)
RECURSIVE MakeChoices(_, _, _)

\* [_convert_soup_node(n, context) for n in ns]: [h, ids, exc, what]
ConvertAll(h, ns, path) ==
    IF ns = <<>> THEN [h |-> h, ids |-> <<>>, exc |-> "none", what |-> ""]
    ELSE Bind(ConvertSoupNode(h, Head(ns), path), LAMBDA r :
             IF r.exc # "none"
             THEN [h |-> r.h, ids |-> <<>>, exc |-> r.exc, what |-> r.what]
             ELSE Bind(ConvertAll(r.h, Tail(ns), path), LAMBDA rest :
                      [h |-> rest.h, ids |-> <<r.id>> \o rest.ids,
                       exc |-> rest.exc, what |-> rest.what]))

\* problem.add_child(_convert_soup_node(n, context)) for each n of ns in turn
ConvertAndAdd(h, p, ns, path) ==
    IF ns = <<>> THEN [h |-> h, id |-> p, exc |-> "none", what |-> ""]
    ELSE Bind(ConvertSoupNode(h, Head(ns), path), LAMBDA r :
             IF r.exc # "none" THEN r
             ELSE Bind(AddChildTo(r.h, p, r.id), LAMBDA a :
                      IF a.exc # "none" THEN FromNode(a)
                      ELSE ConvertAndAdd(a.h, p, Tail(ns), path)))

\* _make_choice_from_segment
MakeChoice(h, segment, path) ==
    IF ~HasName(segment[1]) THEN Raise(h, "AttributeError", "name")
    ELSE Bind(ConvertAll(h, Tail(segment), path), LAMBDA ks :
             IF ks.exc # "none" THEN Raise(ks.h, ks.exc, ks.what)
             ELSE FromNode(NewInternalNode(ks.h, "Choice",
                      [correct |-> (segment[1].name = "correctchoice")], ks.ids)))

\* [_make_choice_from_segment(segment) for segment in segments]
MakeChoices(h, segments, path) ==
    IF segments = <<>> THEN [h |-> h, ids |-> <<>>, exc |-> "none", what |-> ""]
    ELSE Bind(MakeChoice(h, Head(segments), path), LAMBDA r :
             IF r.exc # "none"
             THEN [h |-> r.h, ids |-> <<>>, exc |-> r.exc, what |-> r.what]
             ELSE Bind(MakeChoices(r.h, Tail(segments), path), LAMBDA rest :
                      [h |-> rest.h, ids |-> <<r.id>> \o rest.ids,
                       exc |-> rest.exc, what |-> rest.what]))

\* a container made of all the converted contents: subprob, soln
ConvertContainer(h, t, n, path) ==
    Bind(ConvertAll(h, n.contents, path), LAMBDA ks :
        IF ks.exc # "none" THEN Raise(ks.h, ks.exc, ks.what)
        ELSE FromNode(NewInternalNode(ks.h, t, <<>>, ks.ids)))

\* the prob conversion
ConvertProb(h, n, path) ==
    Bind(NewInternalNode(h, "Problem", <<>>, <<>>), LAMBDA problem :
        ConvertAndAdd(problem.h, problem.id, ProbItems(n.contents), path))

\* the choices conversion
ConvertChoices(h, n, path) ==
    LET class == IF IsRectangle(n) THEN "MultipleSelect" ELSE "MultipleChoices"
    IN  Bind(MakeChoices(h, Segment(ChoicesContents(n)), path), LAMBDA cs :
            IF cs.exc # "none" THEN Raise(cs.h, cs.exc, cs.what)
            ELSE FromNode(NewInternalNode(cs.h, class, <<>>, cs.ids)))

RECURSIVE UniversalNewlines(_)
\* what reading in text mode makes of the line ends of a file: "\r\n" and
\* "\r" are read as "\n"
UniversalNewlines(s) ==
    IF s = <<>> THEN <<>>
    ELSE IF Head(s) # CR THEN <<Head(s)>> \o UniversalNewlines(Tail(s))
    ELSE IF Len(s) > 1 /\ s[2] = NL THEN <<NL>> \o UniversalNewlines(SubSeq(s, 3, Len(s)))
    ELSE <<NL>> \o UniversalNewlines(Tail(s))

\* with (context.path / relpath).open(mode) as f: f.read()
\* context.path is None when parse was given no path, and None / relpath is a
\* TypeError (unsupported operand types for /)
ReadFile(path, relpath, mode) ==
    IF path = "None" THEN [exc |-> "TypeError", what |-> <<"/">>, data |-> <<>>]
    ELSE IF relpath \notin DOMAIN Files
    THEN [exc |-> "FileNotFoundError", what |-> <<path>> \o relpath, data |-> <<>>]
    ELSE [exc |-> "none", what |-> <<>>,
          data |-> IF mode = "rb" THEN Files[relpath]
                   ELSE UniversalNewlines(Files[relpath])]

\* the includegraphics conversion
ConvertIncludeGraphics(h, n, path) ==
    IF Len(n.args) < 1 THEN Raise(h, "IndexError", n.name)
    ELSE LET relpath == StripThisDir(n.args[1])
             f == ReadFile(path, relpath, "rb")
         IN  IF f.exc # "none" THEN Raise(h, f.exc, f.what)
             ELSE Ok(NewObject(h, "Image", [relative_path |-> relpath, data |-> f.data]))

\* the inputminted conversion
ConvertInputMinted(h, n, path) ==
    IF Len(n.args) < 2 THEN Raise(h, "IndexError", n.name)
    ELSE LET relpath == StripThisDir(n.args[2])
             f == ReadFile(path, relpath, "r")
         IN  IF f.exc # "none" THEN Raise(h, f.exc, f.what)
             ELSE Ok(NewObject(h, "Code", [language |-> n.args[1], code |-> f.data]))

\* ENV_PARSERS[n.name](n, context)
ConvertEnv(h, n, path) ==
    CASE n.name = "[tex]" ->
            IF Len(n.contents) # 1 THEN Raise(h, "ValueError", "unpack")
            ELSE ConvertSoupNode(h, n.contents[1], path)
      [] n.name = "prob" -> ConvertProb(h, n, path)
      [] n.name = "subprob" -> ConvertContainer(h, "Subproblem", n, path)
      [] n.name = "soln" -> ConvertContainer(h, "Solution", n, path)
      [] n.name = "choices" -> ConvertChoices(h, n, path)
      [] n.name = "$" -> Ok(NewObject(h, "InlineMath", [latex |-> n.str]))
      [] n.name \in {"$$", "displaymath"} ->
            Ok(NewObject(h, "DisplayMath", [latex |-> n.str]))
      [] n.name = "align" ->
            Ok(NewObject(h, "DisplayMath",
                   [latex |-> <<"\\begin{aligned}">> \o n.str \o <<"\\end{aligned}">>]))
      [] n.name = "minted" ->
            IF Len(n.args) < 1 THEN Raise(h, "IndexError", n.name)
            ELSE Ok(NewObject(h, "Code", [language |-> n.args[1], code |-> Dedent(n.str)]))

\* CMD_PARSERS[n.name](n, context)
ConvertCmd(h, n, path) ==
    CASE n.name = "textbf" -> Ok(NewObject(h, "BoldText", [text |-> n.str]))
      [] n.name = "textit" -> Ok(NewObject(h, "ItalicText", [text |-> n.str]))
      [] n.name = "mintinline" ->
            IF Len(n.args) < 2 THEN Raise(h, "IndexError", n.name)
            ELSE Ok(NewObject(h, "InlineCode", [language |-> n.args[1], code |-> n.args[2]]))
      [] n.name = "Tf" -> Ok(NewObject(h, "TrueFalse", [solution |-> TRUE]))
      [] n.name = "tF" -> Ok(NewObject(h, "TrueFalse", [solution |-> FALSE]))
      [] n.name = "includegraphics" -> ConvertIncludeGraphics(h, n, path)
      [] n.name = "inputminted" -> ConvertInputMinted(h, n, path)

\* _convert_soup_node with one table for both kinds of node
ConvertSoupNode_OneTable(h, n, path) ==
    IF n.kind = "str" THEN Ok(NewObject(h, "NormalText", [text |-> n.str]))
    ELSE IF n.name \in ENV_PARSERS THEN ConvertEnv(h, n, path)
    ELSE IF n.name \in CMD_PARSERS THEN ConvertCmd(h, n, path)
    ELSE UnknownNodeType(h, n)

\* _convert_soup_node
ConvertSoupNode(h, n, path) ==
    IF n.kind = "str" THEN Ok(NewObject(h, "NormalText", [text |-> n.str]))
    ELSE IF n.kind = "env"
    THEN IF n.name \notin ENV_PARSERS THEN UnknownNodeType(h, n)
         ELSE ConvertEnv(h, n, path)
    ELSE IF n.kind = "cmd"
    THEN IF n.name \notin CMD_PARSERS THEN UnknownNodeType(h, n)
         ELSE ConvertCmd(h, n, path)
    ELSE UnknownNodeType(h, n)

(***************************************************************************)
(* latex.py: the paragraph pass.                                           *)
(***************************************************************************)
RECURSIVE GroupFrom(_, _, _)
\* itertools.groupby: consecutive items with the same key form a group
GroupFrom(items, keys, groups) ==
    IF items = <<>> THEN groups
    ELSE IF groups # <<>> /\ groups[Len(groups)].key = Head(keys)
    THEN GroupFrom(Tail(items), Tail(keys),
                   [groups EXCEPT ![Len(groups)].items = Append(@, Head(items))])
    ELSE GroupFrom(Tail(items), Tail(keys),
                   Append(groups, [key |-> Head(keys), items |-> <<Head(items)>>]))

\* groupby(items, key), keys[i] being the key of items[i]
GroupBy(items, keys) == GroupFrom(items, keys, <<>>)

\* the sentinel parbreak, which is no node
ParBreak == 0

\* the test for the text classes only: inline math and inline code are not
\* grouped
IsAllowedInParagraph_TextOnly(h, n) == IsInstance(h[n].type, <<"TextNode">>)

\* isinstance(n, types.Paragraph.allowed_child_types)
IsAllowedInParagraph(h, n) == IsInstance(h[n].type, ParagraphAllowed)

\* the test that decides whether a node is split, for NormalText only
IsSplit_NormalTextOnly(h, n) == h[n].type = "NormalText"

\* the test that decides whether a node is split, with BoldText left whole
IsSplit_NotBoldText(h, n) == h[n].type \in {"NormalText", "ItalicText"}

\* the test that decides whether a node is split: isinstance(node, types.TextNode)
IsSplit(h, n) == IsInstance(h[n].type, <<"TextNode">>)

RECURSIVE NewPieces_DropsEmpty(_, _, _)
\* the loop of _split_text_node_into_paragraphs that makes no node for an
\* empty paragraph
NewPieces_DropsEmpty(h, t, paragraphs) ==
    IF paragraphs = <<>> THEN [h |-> h, ids |-> <<>>]
    ELSE IF Head(paragraphs) = <<>> THEN NewPieces_DropsEmpty(h, t, Tail(paragraphs))
    ELSE Bind(NewObject(h, t, [text |-> Head(paragraphs)]), LAMBDA o :
             Bind(NewPieces_DropsEmpty(o.h, t, Tail(paragraphs)), LAMBDA rest :
                 [h |-> rest.h, ids |-> <<o.id, ParBreak>> \o rest.ids]))

RECURSIVE NewPieces(_, _, _)
\* the loop of _split_text_node_into_paragraphs: a new node of class t for
\* each paragraph, each followed by parbreak: [h, ids]
NewPieces(h, t, paragraphs) ==
    IF paragraphs = <<>> THEN [h |-> h, ids |-> <<>>]
    ELSE Bind(NewObject(h, t, [text |-> Head(paragraphs)]), LAMBDA o :
             Bind(NewPieces(o.h, t, Tail(paragraphs)), LAMBDA rest :
                 [h |-> rest.h, ids |-> <<o.id, ParBreak>> \o rest.ids]))

\* _split_text_node_into_paragraphs: the node itself when its text has no
\* double newline, else the new pieces with the last parbreak popped
SplitTextNode(h, n) ==
    Bind(SplitParagraphs(h[n].attrs.text), LAMBDA paragraphs :
        IF Len(paragraphs) = 1 THEN [h |-> h, ids |-> <<n>>]
        ELSE Bind(NewPieces(h, h[n].type, paragraphs), LAMBDA r :
                 [h |-> r.h, ids |-> SubSeq(r.ids, 1, Len(r.ids) - 1)]))

RECURSIVE SplitNodes(_, _)
\* nodes_after_splitting
SplitNodes(h, ns) ==
    IF ns = <<>> THEN [h |-> h, ids |-> <<>>]
    ELSE Bind(IF IsSplit(h, Head(ns)) THEN SplitTextNode(h, Head(ns))
              ELSE [h |-> h, ids |-> <<Head(ns)>>], LAMBDA r :
             Bind(SplitNodes(r.h, Tail(ns)), LAMBDA rest :
                 [h |-> rest.h, ids |-> r.ids \o rest.ids]))

RECURSIVE NewParagraphs(_, _)
\* a Paragraph for each group that is not a group of parbreaks: [h, ids, exc]
NewParagraphs(h, groups) ==
    IF groups = <<>> THEN [h |-> h, ids |-> <<>>, exc |-> "none"]
    ELSE IF Head(groups).key THEN NewParagraphs(h, Tail(groups))
    ELSE Bind(NewInternalNode(h, "Paragraph", <<>>, Head(groups).items), LAMBDA r :
             IF r.exc # "none" THEN [h |-> r.h, ids |-> <<>>, exc |-> r.exc]
             ELSE Bind(NewParagraphs(r.h, Tail(groups)), LAMBDA rest :
                      [h |-> rest.h, ids |-> <<r.id>> \o rest.ids, exc |-> rest.exc]))

\* _paragraphize_textlike_nodes
ParagraphizeTextlikeNodes(h, ns) ==
    Bind(SplitNodes(h, ns), LAMBDA split :
        NewParagraphs(split.h,
            GroupBy(split.ids, [i \in 1..Len(split.ids) |-> split.ids[i] = ParBreak])))

RECURSIVE ParagraphizeEach_AsIs(_, _, _)
\* the loop over a group of nodes that are not allowed in a paragraph, each
\* of them attached as it is
ParagraphizeEach_AsIs(h, p, ns) ==
    IF ns = <<>> THEN [h |-> h, id |-> p, exc |-> "none"]
    ELSE Bind(AddChildTo(h, p, Head(ns)), LAMBDA a :
             IF a.exc # "none" THEN a ELSE ParagraphizeEach_AsIs(a.h, p, Tail(ns)))

RECURSIVE Paragraphize(_, _)
RECURSIVE ParagraphizeGroups(_, _, _)
RECURSIVE ParagraphizeEach(_, _, _)

\* the loop over a group of nodes that are not allowed in a paragraph
ParagraphizeEach(h, p, ns) ==
    IF ns = <<>> THEN [h |-> h, id |-> p, exc |-> "none"]
    ELSE Bind(IF h[Head(ns)].type \in InternalTypes
              THEN Paragraphize(h, Head(ns))
              ELSE [h |-> h, id |-> Head(ns), exc |-> "none"], LAMBDA r :
             IF r.exc # "none" THEN r
             ELSE Bind(AddChildTo(r.h, p, r.id), LAMBDA a :
                      IF a.exc # "none" THEN a ELSE ParagraphizeEach(a.h, p, Tail(ns))))

\* the loop over the groups of _paragraphize
ParagraphizeGroups(h, p, groups) ==
    IF groups = <<>> THEN [h |-> h, id |-> p, exc |-> "none"]
    ELSE Bind(IF Head(groups).key
              THEN Bind(ParagraphizeTextlikeNodes(h, Head(groups).items), LAMBDA ps :
                       IF ps.exc # "none" THEN [h |-> ps.h, id |-> 0, exc |-> ps.exc]
                       ELSE AddChildren(ps.h, p, ps.ids))
              ELSE ParagraphizeEach(h, p, Head(groups).items), LAMBDA r :
             IF r.exc # "none" THEN r ELSE ParagraphizeGroups(r.h, p, Tail(groups)))

\* _paragraphize: the copy without children, then the groups of children
Paragraphize(h, n) ==
    IF h[n].type \in LeafTypes
    THEN [h |-> NewObject(h, h[n].type, h[n].attrs).h, id |-> 0, exc |-> "AttributeError"]
    ELSE Bind(NewInternalNode(h, h[n].type, h[n].attrs, <<>>), LAMBDA copy :
             ParagraphizeGroups(copy.h, copy.id,
                 GroupBy(h[n].kids, [i \in 1..Len(h[n].kids) |->
                                        IsAllowedInParagraph(h, h[n].kids[i])])))

(***************************************************************************)
(* latex.py: parse.  The document is given as the markup tree TexSoup made *)
(* of it, with the path given to parse ("None" when none was given).       *)
(***************************************************************************)
\* the first statement of a parse that goes on to the paragraph pass with
\* whatever the conversion had built when it failed
Convert_GoesOn ==
    /\ pc = "start"
    /\ LET r == ConvertSoupNode(heap, doc.soup, doc.path)
       IN  /\ heap' = r.h
           /\ tree' = IF r.exc = "none" THEN r.id ELSE Len(r.h)
           /\ pc' = IF tree' # 0 THEN "converted" ELSE "raised"
           /\ raised' = [exc |-> r.exc, what |-> r.what]
    /\ UNCHANGED <<ret, doc, out>>

\* tree = _convert_soup_node(soup, context)
Convert ==
    /\ pc = "start"
    /\ LET r == ConvertSoupNode(heap, doc.soup, doc.path)
       IN  /\ heap' = r.h
           /\ tree' = r.id
           /\ pc' = IF r.exc = "none" THEN "converted" ELSE "raised"
           /\ raised' = [exc |-> r.exc, what |-> r.what]
    /\ UNCHANGED <<ret, doc, out>>

\* return _paragraphize(tree)
ParagraphPass ==
    /\ pc = "converted"
    /\ LET r == Paragraphize(heap, tree)
       IN  /\ heap' = r.h
           /\ out' = IF r.exc = "none" THEN r.id ELSE 0
           /\ pc' = IF r.exc = "none" THEN "returned" ELSE "raised"
           /\ raised' = [exc |-> r.exc, what |-> ""]
    /\ UNCHANGED <<ret, doc, tree>>

ParseNext == Convert \/ ParagraphPass

(***************************************************************************)
(* The documents parse is applied to.                                      *)
(***************************************************************************)
\* nodes in the body of a prob
MaxBodyLen == 2
\* nodes in the body of a choices environment
MaxChoicesLen == 4

Word(w) == <<w>>

Prob(contents) == Env("prob", <<>>, contents)

\* constructs _convert_soup_node is asked to dispatch: raw text, names of
\* either table under either kind of node, names of neither table
DispatchProbes ==
    {Txt(<<"x">>),
     Cmd("textbf", <<>>, <<"x">>), Verb("$", <<>>, <<"x">>), Env("soln", <<>>, <<>>),
     Env("foo", <<>>, <<>>), Cmd("bar", <<>>, <<>>),
     Cmd("soln", <<>>, <<>>), Env("textbf", <<>>, <<>>), Cmd("$", <<>>, <<"x">>),
     Cmd("choice", <<>>, <<>>), Env("subprobset", <<>>, <<>>),
     [kind |-> "other", name |-> "soln", args |-> <<>>, contents |-> <<>>, str |-> <<>>],
     [kind |-> "other", name |-> "baz", args |-> <<>>, contents |-> <<>>, str |-> <<>>]}

\* a probe at each place a construct can stand
DispatchDocs ==
    UNION {{Soup(<<d>>),
            Soup(<<d, d>>),
            Soup(<<Prob(<<d>>)>>),
            Soup(<<Prob(<<Txt(<<"x">>), d>>)>>),
            Soup(<<Prob(<<Env("subprob", <<>>, <<d>>)>>)>>),
            Soup(<<Prob(<<Env("soln", <<>>, <<Txt(<<"x">>), d>>)>>)>>),
            Soup(<<Prob(<<Env("subprobset", <<>>, <<d>>)>>)>>),
            Soup(<<Prob(<<Env("subprob", <<>>, <<Env("subprobset", <<>>, <<d>>)>>)>>)>>),
            Soup(<<Prob(<<Env("choices", <<>>, <<Cmd("choice", <<>>, <<>>), d>>)>>)>>)}
           : d \in DispatchProbes}

Subprob(contents) == Env("subprob", <<>>, contents)

\* what stands in the body of a prob: text with and without blank lines,
\* inline and block constructs, subproblems with and without their wrapper
BodyItems ==
    {Txt(<<"x">>), Txt(<<"x", NL, NL, "y">>), Txt(<<"x", NL, NL>>),
     Txt(<<NL, NL, NL>>), Txt(<<NL, NL, NL, NL>>),
     Cmd("textbf", <<>>, <<"x", NL, NL, "y">>), Cmd("textbf", <<>>, <<"x", NL, NL>>),
     Verb("$", <<>>, <<"x", NL, NL, "y">>),
     Cmd("Tf", <<>>, <<>>),
     Env("soln", <<>>, <<Txt(<<"x", NL, NL, "y">>), Cmd("textit", <<>>, <<"z">>)>>),
     Subprob(<<Txt(<<"x">>)>>),
     Env("subprobset", <<>>, <<Subprob(<<Txt(<<"x">>)>>), Subprob(<<>>)>>),
     Env("subprobset", <<>>, <<Txt(<<"x">>), Subprob(<<>>)>>),
     Env("subprobset", <<>>, <<>>)}

BodyDocs == {Soup(<<Prob(b)>>) : b \in SeqUpTo(BodyItems, MaxBodyLen)}

\* what stands in the body of a choices environment
ChoicesItems ==
    {Cmd("choice", <<>>, <<>>), Cmd("correctchoice", <<>>, <<>>),
     Txt(<<"a">>), Cmd("textbf", <<>>, <<"b">>)}

\* a style argument [w] as node.contents holds it: TexSoup lists it either as
\* the text span in the brackets or as the bracket group
StyleArgItems(w) == {Txt(Word(w)), Env("BracketGroup", <<>>, <<Txt(Word(w))>>)}

ChoicesEnvs ==
    {Env("choices", <<>>, b) : b \in SeqUpTo(ChoicesItems, MaxChoicesLen)}
    \cup UNION {{Env("choices", <<Word(w)>>, <<a>> \o b) : a \in StyleArgItems(w)}
                : w \in {"rectangle", "oval"}, b \in SeqUpTo(ChoicesItems, MaxChoicesLen)}

ChoicesDocs == {Soup(<<Prob(<<c>>)>>) : c \in ChoicesEnvs}

\* one construct for each class of leaf, the files being there to read
LeafItems ==
    {Txt(<<"x">>), Cmd("textbf", <<>>, <<"x">>), Cmd("textit", <<>>, <<"x">>),
     Verb("$", <<>>, <<"x">>), Cmd("mintinline", <<Word("python"), <<"x">>>>, <<>>),
     Verb("$$", <<>>, <<"x">>), Verb("minted", <<Word("python")>>, <<SP, "x", NL>>),
     Cmd("Tf", <<>>, <<>>),
     Cmd("includegraphics", <<<<ThisDir, "image.png">>>>, <<>>),
     Cmd("inputminted", <<Word("python"), <<ThisDir, "code.py">>>>, <<>>)}

\* two leaves in each container that is made of its converted contents, as
\* the root of the document where that can be
LeafDocs ==
    {Soup(<<Env(w, <<>>, <<a, b>>)>>) : w \in {"prob", "subprob", "soln"},
                                        a \in LeafItems, b \in LeafItems}
    \cup {Soup(<<Env("choices", <<>>, <<Cmd("choice", <<>>, <<>>), a, b>>)>>)
              : a \in LeafItems, b \in LeafItems}

Docs == DispatchDocs \cup BodyDocs \cup ChoicesDocs \cup LeafDocs

\* constructs that read a file of the problem directory: one that is there,
\* with and without \thisdir/, and one that is not
FileItems ==
    {Cmd("includegraphics", <<<<ThisDir, "image.png">>>>, <<>>),
     Cmd("includegraphics", <<<<"image.png">>>>, <<>>),
     Cmd("includegraphics", <<<<"missing.png">>>>, <<>>),
     Cmd("inputminted", <<Word("python"), <<"code.py">>>>, <<>>),
     Cmd("inputminted", <<Word("python"), <<"crlf.py">>>>, <<>>),
     Cmd("inputminted", <<Word("python"), <<ThisDir, "missing.py">>>>, <<>>)}

\* a prob with such a construct, alone, after a text or in a solution
FileDocs ==
    {Soup(<<Prob(<<a>>)>>) : a \in FileItems}
    \cup {Soup(<<Prob(<<Txt(<<"x">>), a>>)>>) : a \in FileItems}
    \cup {Soup(<<Prob(<<Env("soln", <<>>, <<a>>)>>)>>) : a \in FileItems}

\* the command of an inline response box, by the names it may go by
ResponseBoxNames == {"inlineresponsebox", "responsebox", "fillintheblank"}

\* a prob with an inline response box around a text, alone or after a text
ResponseBoxDocs ==
    UNION {{Soup(<<Prob(<<Cmd(w, <<>>, <<Txt(<<"x">>)>>)>>)>>),
            Soup(<<Prob(<<Txt(<<"x">>), Cmd(w, <<>>, <<Txt(<<"x">>)>>)>>)>>),
            Soup(<<Prob(<<Env(w, <<>>, <<Txt(<<"x">>)>>)>>)>>)}
           : w \in ResponseBoxNames}

\* constructs of each class allowed in a paragraph, with a double newline in
\* their content, and a text without one
BreakItems ==
    {Txt(<<"x">>), Txt(<<"x", NL, NL, "y">>),
     Cmd("textbf", <<>>, <<"x", NL, NL, "y">>), Cmd("textit", <<>>, <<"x", NL, NL, "y">>),
     Verb("$", <<>>, <<"x", NL, NL, "y">>),
     Cmd("mintinline", <<Word("python"), <<"x", NL, NL, "y">>>>, <<>>)}

\* a prob or a solution of a prob with up to two of them
BreakDocs ==
    {Soup(<<Prob(b)>>) : b \in SeqUpTo(BreakItems, 2)}
    \cup {Soup(<<Prob(<<Env("soln", <<>>, b)>>)>>) : b \in SeqUpTo(BreakItems, 2)}

\* the path given to parse: the problem directory, or none
Paths == {"dir", "None"}

ParseInit ==
    /\ heap = <<>>
    /\ ret = NoCall
    /\ \/ \E d \in Docs : doc = [soup |-> d, path |-> "dir"]
       \/ \E d \in FileDocs, p \in Paths : doc = [soup |-> d, path |-> p]
       \/ \E d \in ResponseBoxDocs \cup BreakDocs : doc = [soup |-> d, path |-> "dir"]
    /\ pc = "start"
    /\ tree = 0
    /\ out = 0
    /\ raised = NoException

SpecParse == ParseInit /\ [][ParseNext]_vars

(***************************************************************************)
(* renderers/html/problem.py: render.  The HTML is a sequence of pieces:   *)
(* the markup a renderer writes, as one piece each, and the characters of  *)
(* the attributes it writes out.  A rendering is [exc, what, html, seen]:  *)
(* the exception raised ("none" when none) with what it names, the HTML    *)
(* returned, and the nodes a rendering function was applied to.            *)
(***************************************************************************)
\* the classes _RENDERERS has an entry for
RENDERERS ==
    {"Problem", "NormalText", "BoldText", "ItalicText", "Code", "InlineCode",
     "InlineMath", "DisplayMath", "TrueFalse", "Solution", "Image",
     "MultipleChoices", "MultipleSelect", "Paragraph"}

Digit(d) == <<"0", "1", "2", "3", "4", "5", "6", "7", "8", "9">>[d + 1]

RECURSIVE Str(_)
\* str(i) for i >= 0
Str(i) == IF i < 10 THEN <<Digit(i)>> ELSE Str(i \div 10) \o <<Digit(i % 10)>>

RECURSIVE Join(_, _)
\* sep.join(parts)
Join(sep, parts) ==
    IF parts = <<>> THEN <<>>
    ELSE IF Len(parts) = 1 THEN parts[1]
    ELSE parts[1] \o sep \o Join(sep, Tail(parts))

Rendered(n, html) == [exc |-> "none", what |-> "", html |-> html, seen |-> {n}]

RenderRaise(e, w) == [exc |-> e, what |-> w, html |-> <<>>, seen |-> {}]

\* the rendering of a container: its own node with the nodes of its children
\* seen, or the exception of the first child that raised
Around(n, rs, html) ==
    IF rs.exc # "none" THEN RenderRaise(rs.exc, rs.what)
    ELSE [exc |-> "none", what |-> "", html |-> html, seen |-> {n} \cup rs.seen]

\* the value None
None == [none |-> TRUE]

\* the heading the Problem renderer writes from node.metadata
MetadataHtml(m) ==
    IF m = None THEN <<>>
    ELSE <<"<h2 class=problem-id>Problem ">> \o m.id \o <<"</h2>">>
         \o (IF m.tags # <<>>
             THEN <<"<div class=problem-tags>", "tags: ">> \o Join(<<", ">>, m.tags)
                  \o <<"</div>">>
             ELSE <<>>)

RECURSIVE RenderNode(_, _)
RECURSIVE RenderEach(_, _, _, _)

\* the renderings of the nodes ns in order, as [exc, what, parts, seen]; how
\* says which function the loop applies: _render_node ("node"), _render_choice
\* with a kind ("radio", "checkbox"), or the loop of the Problem renderer
\* ("problem") with its counter of subproblems
RenderEach(h, ns, how, counter) ==
    IF ns = <<>> THEN [exc |-> "none", what |-> "", parts |-> <<>>, seen |-> {}]
    ELSE Bind(
        IF how = "problem" /\ IsInstance(h[Head(ns)].type, <<"Subproblem">>)
        THEN \* _render_subproblem(child, subprob_counter)
             Bind(RenderEach(h, h[Head(ns)].kids, "node", 0), LAMBDA rs :
                 Around(Head(ns), rs,
                     <<"<div class=subproblem>", "<h3 class=subproblem-id>Part ">>
                     \o Str(counter) \o <<")</h3>">>
                     \o Join(<<NL>>, rs.parts) \o <<"</div>">>))
        ELSE IF how \in {"radio", "checkbox"}
        THEN \* _render_choice(child, kind)
             Bind(RenderEach(h, h[Head(ns)].kids, "node", 0), LAMBDA rs :
                 Around(Head(ns), rs,
                     <<"<div class=choice><label><input type=", how, "/>">>
                     \o Join(<<NL>>, rs.parts) \o <<"</label></div>">>))
        ELSE RenderNode(h, Head(ns)),
        LAMBDA r :
            IF r.exc # "none"
            THEN [exc |-> r.exc, what |-> r.what, parts |-> <<>>, seen |-> {}]
            ELSE Bind(RenderEach(h, Tail(ns), how,
                          IF how = "problem" /\ IsInstance(h[Head(ns)].type, <<"Subproblem">>)
                          THEN counter + 1 ELSE counter),
                      LAMBDA rest :
                          [exc |-> rest.exc, what |-> rest.what,
                           parts |-> <<r.html>> \o rest.parts,
                           seen |-> r.seen \cup rest.seen]))

\* _render_node: _RENDERERS[type(node)](node)
RenderNode(h, n) ==
    CASE h[n].type \notin RENDERERS -> RenderRaise("NotImplementedError", h[n].type)
      [] h[n].type = "Problem" ->
            IF "metadata" \notin DOMAIN h[n].attrs
            THEN RenderRaise("AttributeError", "metadata")
            ELSE Bind(RenderEach(h, h[n].kids, "problem", 1), LAMBDA rs :
                     Around(n, rs,
                         <<"<div class=problem>">> \o MetadataHtml(h[n].attrs.metadata)
                         \o <<"<div class=problem-body>">> \o Join(<<NL>>, rs.parts)
                         \o <<"</div>", "</div>">>))
      [] h[n].type = "NormalText" -> Rendered(n, h[n].attrs.text)
      [] h[n].type = "BoldText" -> Rendered(n, <<"<b>">> \o h[n].attrs.text \o <<"</b>">>)
      [] h[n].type = "ItalicText" -> Rendered(n, <<"<i>">> \o h[n].attrs.text \o <<"</i>">>)
      [] h[n].type = "Code" ->
            Rendered(n, <<"<pre class=code><code>">> \o h[n].attrs.code \o <<"</code></pre>">>)
      [] h[n].type = "InlineCode" ->
            Rendered(n, <<"<span class=inline-code><code>">> \o h[n].attrs.code
                        \o <<"</code></span>">>)
      [] h[n].type = "InlineMath" ->
            Rendered(n, <<"<span class=math>\\(">> \o h[n].attrs.latex \o <<"\\)</span>">>)
      [] h[n].type = "DisplayMath" ->
            Rendered(n, <<"<div class=math>\\[">> \o h[n].attrs.latex \o <<"\\]</div>">>)
      [] h[n].type = "TrueFalse" -> Rendered(n, <<"<div class=true-false>">>)
      [] h[n].type = "Image" ->
            Rendered(n, <<"<center><div class=image><img src=">> \o h[n].attrs.relative_path
                        \o <<"/></div></center>">>)
      [] h[n].type = "Solution" ->
            Bind(RenderEach(h, h[n].kids, "node", 0), LAMBDA rs :
                Around(n, rs, <<"<details><summary>Solution</summary>">>
                              \o Join(<<NL>>, rs.parts) \o <<"</details>">>))
      [] h[n].type = "MultipleChoices" ->
            Bind(RenderEach(h, h[n].kids, "radio", 0), LAMBDA rs :
                Around(n, rs, <<"<div class=multiple-choices><form>">>
                              \o Join(<<NL>>, rs.parts) \o <<"</form></div>">>))
      [] h[n].type = "MultipleSelect" ->
            Bind(RenderEach(h, h[n].kids, "checkbox", 0), LAMBDA rs :
                Around(n, rs, <<"<div class=multiple-select>">>
                              \o Join(<<NL>>, rs.parts) \o <<"</div>">>))
      [] h[n].type = "Paragraph" ->
            Bind(RenderEach(h, h[n].kids, "node", 0), LAMBDA rs :
                Around(n, rs, <<"<p>">> \o Join(<<>>, rs.parts) \o <<"</p>">>))

\* render(problem)
Render ==
    /\ pc = "finished"
    /\ LET r == RenderNode(heap, tree)
       IN  /\ ret' = [op |-> "render", node |-> tree, exc |-> r.exc,
                      html |-> r.html, seen |-> r.seen]
           /\ pc' = IF r.exc = "none" THEN "rendered" ELSE "raised"
           /\ raised' = [exc |-> r.exc, what |-> r.what]
    /\ UNCHANGED <<heap, doc, tree, out>>

RenderNext == Render

(***************************************************************************)
(* The finished trees render is applied to: every tree of the families     *)
(* below that the constructors of types.py accept.  A Problem is as its    *)
(* constructor leaves it, or has been given a metadata attribute: None, or *)
(* an identifier with or without tags.                                     *)
(***************************************************************************)
\* children of the root of a rendered tree
MaxRenderKids == 2

PlainText(x) == Leaf("NormalText", [text |-> <<x>>])

RenderLeaves ==
    {PlainText("x"), Leaf("BoldText", [text |-> <<"b">>]), Leaf("ItalicText", [text |-> <<"i">>]),
     Leaf("InlineMath", [latex |-> <<"m">>]), Leaf("DisplayMath", [latex |-> <<"d">>]),
     Leaf("Code", [language |-> <<"python">>, code |-> <<"c">>]),
     Leaf("InlineCode", [language |-> <<"python">>, code |-> <<"k">>]),
     Leaf("Image", [relative_path |-> <<"image.png">>, data |-> <<"png-bytes">>]),
     Leaf("TrueFalse", [solution |-> TRUE])}

RenderContainers ==
    {Inner("Paragraph", <<>>, <<PlainText("x"), Leaf("BoldText", [text |-> <<"b">>])>>),
     Inner("Solution", <<>>, <<Inner("Paragraph", <<>>, <<PlainText("s")>>),
                               Leaf("Code", [language |-> <<"python">>, code |-> <<"c">>])>>),
     Inner("MultipleChoices", <<>>,
           <<Inner("Choice", [correct |-> TRUE], <<Inner("Paragraph", <<>>, <<PlainText("p")>>)>>),
             Inner("Choice", [correct |-> FALSE], <<PlainText("q")>>)>>),
     Inner("MultipleSelect", <<>>, <<Inner("Choice", [correct |-> FALSE], <<PlainText("q")>>)>>),
     Inner("FillInTheBlank", <<>>, <<PlainText("f")>>),
     Inner("Choice", [correct |-> FALSE], <<PlainText("q")>>),
     Inner("Subproblem", <<>>, <<Leaf("TrueFalse", [solution |-> FALSE])>>),
     Inner("Subproblem", <<>>, <<Inner("Paragraph", <<>>, <<PlainText("x")>>),
                                 Inner("FillInTheBlank", <<>>, <<>>)>>)}

\* what a caller may have set the metadata attribute of a Problem to
Metadatas ==
    {None, [id |-> <<"0", "7">>, tags |-> <<>>],
     [id |-> <<"1">>, tags |-> <<<<"t">>, <<"u">>>>]}

RootAttrs(t) ==
    IF t = "Problem"
    THEN {<<>>} \cup {[metadata |-> m] : m \in Metadatas}
    ELSE IF t = "Choice" THEN {[correct |-> TRUE]}
    ELSE {<<>>}

RenderTrees ==
    {tv \in RenderLeaves
            \cup UNION {{Inner(t, a, ks) : a \in RootAttrs(t),
                                          ks \in SeqUpTo(RenderLeaves \cup RenderContainers,
                                                         MaxRenderKids)}
                        : t \in InternalTypes}
        : Build(<<>>, tv).exc = "none"}

RenderInit ==
    /\ \E tv \in RenderTrees :
           LET b == Build(<<>>, tv)
           IN  /\ heap = b.h
               /\ tree = b.id
    /\ ret = NoCall
    /\ doc = <<>>
    /\ pc = "finished"
    /\ out = 0
    /\ raised = NoException

SpecRender == RenderInit /\ [][RenderNext]_vars

(***************************************************************************)
(* api/_renumber.py and io.py: renumber.  The root directory of a bank is  *)
(* a function from the names of its entries to what each is: a directory   *)
(* with a problem file ("problem"), a directory without one ("empty"),     *)
(* with both ("both") or with one whose metadata is invalid ("badmeta"),   *)
(* or a file ("file"), and the problem it holds, named by the name its     *)
(* directory had before renumber.  A name is a sequence of characters.     *)
(***************************************************************************)
\* the characters of names, in the order of their codes
Chars == <<".", "0", "1", "2", "3", "4", "5", "6", "7", "8", "9", "_", "x">>

Ord(c) == CHOOSE i \in 1..Len(Chars) : Chars[i] = c

RECURSIVE LexLess(_, _)
\* s < t for strings
LexLess(s, t) ==
    IF t = <<>> THEN FALSE
    ELSE IF s = <<>> THEN TRUE
    ELSE IF Head(s) # Head(t) THEN Ord(Head(s)) < Ord(Head(t))
    ELSE LexLess(Tail(s), Tail(t))

RECURSIVE Sorted(_)
\* sorted(S) for a set of strings
Sorted(S) ==
    IF S = {} THEN <<>>
    ELSE Bind(CHOOSE m \in S : \A o \in S \ {m} : LexLess(m, o), LAMBDA m :
             <<m>> \o Sorted(S \ {m}))

\* str.isnumeric
IsNumeric(s) == s # <<>> /\ \A i \in 1..Len(s) : Ord(s[i]) \in 2..11

RECURSIVE IntOf(_)
\* int(s) for a numeric s
IntOf(s) == IF s = <<>> THEN 0 ELSE 10 * IntOf(SubSeq(s, 1, Len(s) - 1)) + (Ord(s[Len(s)]) - 2)

\* s.zfill(w)
Zfill(s, w) == [i \in 1..(IF w > Len(s) THEN w - Len(s) ELSE 0) |-> "0"] \o s

\* _load_problems skips the entry: not a directory, or its name starts with
\* "." or "_"
IsSkipped(dir, name) == dir[name].kind = "file" \/ name[1] \in {".", "_"}

\* _load_problem(path) raises ProblemError: the directory holds both problem
\* files ("both"), neither ("empty"), or one with invalid metadata ("badmeta")
IsDefective(dir, name) == dir[name].kind # "problem"

RECURSIVE LoadProblems(_, _, _)
\* list(_load_problems(root, raise_on_error)) over the sorted entries:
\* [exc, what, why, all], all being what the generator yielded, a Problem or a
\* ProblemError for each directory, named by the name of the directory
LoadProblems(dir, names, raise_on_error) ==
    IF names = <<>> THEN [exc |-> "none", what |-> <<>>, why |-> "", all |-> <<>>]
    ELSE IF IsSkipped(dir, Head(names)) THEN LoadProblems(dir, Tail(names), raise_on_error)
    ELSE IF ~IsNumeric(Head(names))
    THEN [exc |-> "ProblemError", what |-> Head(names), why |-> "name", all |-> <<>>]
    ELSE IF IsDefective(dir, Head(names)) /\ raise_on_error
    THEN [exc |-> "ProblemError", what |-> Head(names), why |-> dir[Head(names)].kind,
          all |-> <<>>]
    ELSE Bind(LoadProblems(dir, Tail(names), raise_on_error), LAMBDA rest :
             [exc |-> rest.exc, what |-> rest.what, why |-> rest.why,
              all |-> IF rest.exc = "none"
                      THEN <<[name |-> Head(names), error |-> IsDefective(dir, Head(names))]>>
                           \o rest.all
                      ELSE <<>>])

\* the names of the items of all that are errors, or that are not
NamesOf(all, error) ==
    Bind(SelectSeq(all, LAMBDA a : a.error = error), LAMBDA sel :
        [i \in 1..Len(sel) |-> sel[i].name])

\* _check_for_duplicate_identifiers
HasDuplicateIdentifiers(problems) ==
    \E i \in 1..Len(problems) : \E j \in 1..(i - 1) : IntOf(problems[i]) = IntOf(problems[j])

\* the identifier _check_for_duplicate_identifiers raises for
FirstDuplicate(problems) ==
    problems[CHOOSE i \in 1..Len(problems) :
                /\ \E j \in 1..(i - 1) : IntOf(problems[i]) = IntOf(problems[j])
                /\ \A k \in 1..(i - 1) :
                      ~\E j \in 1..(k - 1) : IntOf(problems[k]) = IntOf(problems[j])]

\* io.load(root, raise_on_error): [exc, what, why, problems, invalid_problems]
Load(dir, raise_on_error) ==
    Bind(LoadProblems(dir, Sorted(DOMAIN dir), raise_on_error), LAMBDA r :
        IF r.exc # "none"
        THEN [exc |-> r.exc, what |-> r.what, why |-> r.why,
              problems |-> <<>>, invalid_problems |-> <<>>]
        ELSE IF HasDuplicateIdentifiers(NamesOf(r.all, FALSE))
        THEN [exc |-> "ProblemError", what |-> FirstDuplicate(NamesOf(r.all, FALSE)),
              why |-> "duplicate", problems |-> <<>>, invalid_problems |-> <<>>]
        ELSE [exc |-> "none", what |-> <<>>, why |-> "",
              problems |-> NamesOf(r.all, FALSE),
              invalid_problems |-> NamesOf(r.all, TRUE)])

\* pb = io.load(root, raise_on_error)
LoadBank ==
    /\ pc = "bank"
    /\ \E raise_on_error \in BOOLEAN :
        LET pb == Load(doc.root, raise_on_error)
        IN  /\ ret' = [op |-> "load", raise_on_error |-> raise_on_error, why |-> pb.why,
                       problems |-> pb.problems, invalid_problems |-> pb.invalid_problems]
            /\ pc' = IF pb.exc = "none" THEN "loaded" ELSE "raised"
            /\ raised' = [exc |-> pb.exc, what |-> pb.what]
    /\ UNCHANGED <<heap, doc, tree, out>>

LoadNext == LoadBank

\* _new_identifier(i) in a bank of n problems
NewIdentifier(i, n) == Zfill(Str(i), Len(Str(n)))

\* shutil.move(root / old, root / new), new not being there
Move(dir, old, new) ==
    [name \in (DOMAIN dir \ {old}) \cup {new} |-> IF name = new THEN dir[old] ELSE dir[name]]

RECURSIVE RenumberFrom(_, _, _, _)
\* the loop of renumber from the problem at index i on: [dir, moves]
RenumberFrom(dir, problems, i, moves) ==
    IF i > Len(problems) THEN [dir |-> dir, moves |-> moves]
    ELSE IF NewIdentifier(i, Len(problems)) \notin DOMAIN dir
    THEN RenumberFrom(Move(dir, problems[i], NewIdentifier(i, Len(problems))), problems, i + 1,
                      Append(moves, <<problems[i], NewIdentifier(i, Len(problems))>>))
    ELSE RenumberFrom(dir, problems, i + 1, moves)

\* renumber(path_to_pb, callback)
Renumber ==
    /\ pc = "bank"
    /\ LET pb == Load(doc.root, TRUE)
           r == RenumberFrom(doc.root, pb.problems, 1, <<>>)
       IN  IF pb.exc # "none"
           THEN /\ pc' = "raised"
                /\ raised' = [exc |-> pb.exc, what |-> pb.what]
                /\ UNCHANGED <<doc, ret>>
           ELSE /\ pc' = "renumbered"
                /\ doc' = [root |-> r.dir]
                /\ ret' = [op |-> "renumber", moves |-> r.moves]
                /\ UNCHANGED raised
    /\ UNCHANGED <<heap, tree, out>>

RenumberNext == Renumber

\* entries in the root directory of a bank
MaxEntries == 3

\* names of problem directories: with and without zero padding, of one and of
\* two digits
ProblemNames ==
    {<<"1">>, <<"2">>, <<"3">>, <<"0", "1">>, <<"0", "2">>, <<"0", "3">>, <<"1", "0">>,
     <<"0", "0", "4">>}

\* what a root directory may hold
Entries ==
    {[name |-> w, kind |-> "problem"] : w \in ProblemNames}
    \cup {[name |-> <<"1">>, kind |-> "file"], [name |-> <<"4">>, kind |-> "file"],
          [name |-> <<"2">>, kind |-> "empty"], [name |-> <<"3">>, kind |-> "both"],
          [name |-> <<"0", "1">>, kind |-> "badmeta"],
          [name |-> <<"_">>, kind |-> "problem"], [name |-> <<"x">>, kind |-> "problem"]}

\* the root directories: at most MaxEntries entries with different names
Banks ==
    {E \in SUBSET Entries :
        /\ Cardinality(E) <= MaxEntries
        /\ \A a \in E : \A b \in E : a.name = b.name => a = b}

\* the directory of the entries E, each problem named by its directory
DirOf(E) ==
    [name \in {e.name : e \in E} |->
        [kind |-> (CHOOSE e \in E : e.name = name).kind, was |-> name]]

RenumberInit ==
    /\ \E E \in Banks : doc = [root |-> DirOf(E)]
    /\ heap = <<>>
    /\ ret = NoCall
    /\ pc = "bank"
    /\ tree = 0
    /\ out = 0
    /\ raised = NoException

SpecRenumber == RenumberInit /\ [][RenumberNext]_vars

\* load on every root directory of the model
SpecLoad == RenumberInit /\ [][LoadNext]_vars

(***************************************************************************)
(* api/_insert.py: insert.  A bank takes a bounded number of inserts; ret  *)
(* keeps the identifiers the calls have returned, in order.                *)
(***************************************************************************)
\* max over a non-empty set of numbers
Max(S) == CHOOSE m \in S : \A o \in S : o <= m

\* the identifier counted from the number of problems
InsertIdentifier_CountsProblems(problems) ==
    Zfill(Str(Len(problems) + 1), Max({Len(problems[i]) : i \in 1..Len(problems)}))

\* identifier = str(largest_problem_number + 1).zfill(zero_padding)
InsertIdentifier(problems) ==
    Zfill(Str(Max({IntOf(problems[i]) : i \in 1..Len(problems)}) + 1),
          Max({Len(problems[i]) : i \in 1..Len(problems)}))

\* shutil.copytree(path_to_problem, root / name): the directory copied holds
\* a problem file (kind "problem") or none (kind "empty")
CopyTree(dir, name, kind) ==
    [n \in DOMAIN dir \cup {name} |->
        IF n = name THEN [kind |-> kind, was |-> <<"x">>] ELSE dir[n]]

\* inserts into one bank
MaxInserts == 2

\* insert(path_to_pb, path_to_problem)
Insert ==
    /\ pc = "bank"
    /\ Len(ret.ids) < MaxInserts
    /\ \E kind \in {"problem", "empty"} :
        LET pb == Load(doc.root, TRUE)
        IN  IF pb.exc # "none"
            THEN /\ pc' = "raised"
                 /\ raised' = [exc |-> pb.exc, what |-> pb.what]
                 /\ UNCHANGED <<doc, ret>>
            ELSE IF pb.problems = <<>>
            THEN \* max() of an empty sequence
                 /\ pc' = "raised"
                 /\ raised' = [exc |-> "ValueError", what |-> <<>>]
                 /\ UNCHANGED <<doc, ret>>
            ELSE IF InsertIdentifier(pb.problems) \in DOMAIN doc.root
            THEN \* copytree does not copy onto what is there
                 /\ pc' = "raised"
                 /\ raised' = [exc |-> "FileExistsError",
                               what |-> InsertIdentifier(pb.problems)]
                 /\ UNCHANGED <<doc, ret>>
            ELSE /\ doc' = [root |-> CopyTree(doc.root, InsertIdentifier(pb.problems), kind)]
                 /\ ret' = [op |-> "insert",
                            ids |-> Append(ret.ids, InsertIdentifier(pb.problems))]
                 /\ UNCHANGED <<pc, raised>>
    /\ UNCHANGED <<heap, tree, out>>

InsertNext == Insert

InsertInit ==
    /\ \E E \in Banks : doc = [root |-> DirOf(E)]
    /\ heap = <<>>
    /\ ret = [op |-> "none", ids |-> <<>>]
    /\ pc = "bank"
    /\ tree = 0
    /\ out = 0
    /\ raised = NoException

SpecInsert == InsertInit /\ [][InsertNext]_vars

(***************************************************************************)
(* latex.py: _paragraphize on the trees a caller can build with the        *)
(* constructors of types.py, a tree the pass returned among them.           *)
(***************************************************************************)
\* _paragraphize(_paragraphize(tree)): the pass on the tree it returned
PassAgain ==
    /\ pc = "returned"
    /\ ret.op = "none"
    /\ LET r == Paragraphize(heap, out)
       IN  /\ heap' = r.h
           /\ tree' = out
           /\ out' = IF r.exc = "none" THEN r.id ELSE 0
           /\ pc' = IF r.exc = "none" THEN "returned" ELSE "raised"
           /\ raised' = [exc |-> r.exc, what |-> ""]
    /\ ret' = [ret EXCEPT !.op = "again"]
    /\ UNCHANGED doc

PassNext == ParagraphPass \/ PassAgain

MaxPassKids == 2

PassLeaves ==
    {PlainText("x"), Leaf("NormalText", [text |-> <<"x", NL, NL, "y">>]),
     Leaf("BoldText", [text |-> <<"b", NL, NL>>]),
     Leaf("InlineMath", [latex |-> <<"m">>]),
     Leaf("Code", [language |-> <<"python">>, code |-> <<"c">>]),
     Leaf("TrueFalse", [solution |-> TRUE])}

PassContainers ==
    {Inner("Solution", <<>>, <<Leaf("NormalText", [text |-> <<"x", NL, NL, "y">>])>>),
     Inner("Paragraph", <<>>, <<PlainText("x")>>),
     Inner("Paragraph", <<>>, <<>>),
     Inner("Choice", [correct |-> TRUE], <<PlainText("q")>>),
     Inner("MultipleChoices", <<>>,
           <<Inner("Choice", [correct |-> TRUE], <<PlainText("p")>>),
             Inner("Choice", [correct |-> FALSE], <<Leaf("Image", [relative_path |-> <<"image.png">>,
                                                                  data |-> <<"png-bytes">>])>>)>>),
     Inner("MultipleSelect", <<>>, <<Inner("Choice", [correct |-> FALSE], <<PlainText("q")>>)>>),
     Inner("FillInTheBlank", <<>>, <<PlainText("f"), Leaf("DisplayMath", [latex |-> <<"d">>])>>),
     Inner("Subproblem", <<>>, <<PlainText("x"),
                                 Inner("Solution", <<>>, <<Inner("Paragraph", <<>>, <<PlainText("s")>>)>>)>>)}

PassRoots == {"Problem", "Subproblem", "Solution", "Choice", "Paragraph", "MultipleChoices"}

PassAttrs(t) == IF t = "Choice" THEN [correct : BOOLEAN] ELSE {<<>>}

\* the trees the constructors accept
PassTrees ==
    {tv \in UNION {{Inner(t, a, ks) : a \in PassAttrs(t),
                                     ks \in SeqUpTo(PassLeaves \cup PassContainers, MaxPassKids)}
                   : t \in PassRoots}
        : Build(<<>>, tv).exc = "none"}

PassInit ==
    /\ \E tv \in PassTrees :
           LET b == Build(<<>>, tv)
           IN  /\ heap = b.h
               /\ tree = b.id
    /\ ret = NoCall
    /\ doc = <<>>
    /\ pc = "converted"
    /\ out = 0
    /\ raised = NoException

SpecPass == PassInit /\ [][PassNext]_vars

(***************************************************************************)
(* api/_renumber.py: renumber, statement by statement: the load, then for  *)
(* each problem the test of the new name, the move and the call of the     *)
(* callback.  A run that is interrupted stops in one of these states.      *)
(***************************************************************************)
\* an entry of that name is in the root, whatever its kind
Exists_Never(dir, name) == FALSE

\* (path_to_pb / new_identifier).exists()
Exists(dir, name) == name \in DOMAIN dir

\* pb = io.load(path_to_pb); n = len(pb.problems)
RenumberLoad ==
    /\ pc = "bank"
    /\ LET pb == Load(doc.root, TRUE)
       IN  IF pb.exc # "none"
           THEN /\ pc' = "raised"
                /\ raised' = [exc |-> pb.exc, what |-> pb.what]
                /\ UNCHANGED ret
           ELSE /\ pc' = "loop"
                /\ ret' = [op |-> "renumber", problems |-> pb.problems, i |-> 1, moves |-> <<>>]
                /\ UNCHANGED raised
    /\ UNCHANGED <<heap, doc, tree, out>>

\* the new identifier of the problem the loop is at
NewIdentifierNow == NewIdentifier(ret.i, Len(ret.problems))

\* shutil.move(path_to_pb / problem.identifier, path_to_pb / new_identifier)
RenumberMove ==
    /\ pc = "loop"
    /\ ret.i <= Len(ret.problems)
    /\ ~Exists(doc.root, NewIdentifierNow)
    /\ doc' = [root |-> Move(doc.root, ret.problems[ret.i], NewIdentifierNow)]
    /\ pc' = "moved"
    /\ UNCHANGED <<heap, ret, tree, out, raised>>

\* the callback called with the new identifier first
RenumberCallback_NewFirst ==
    /\ pc = "moved"
    /\ ret' = [ret EXCEPT !.moves = Append(@, <<NewIdentifierNow, ret.problems[ret.i]>>),
                          !.i = @ + 1]
    /\ pc' = "loop"
    /\ UNCHANGED <<heap, doc, tree, out, raised>>

\* callback(problem.identifier, new_identifier), and on to the next problem
RenumberCallback ==
    /\ pc = "moved"
    /\ ret' = [ret EXCEPT !.moves = Append(@, <<ret.problems[ret.i], NewIdentifierNow>>),
                          !.i = @ + 1]
    /\ pc' = "loop"
    /\ UNCHANGED <<heap, doc, tree, out, raised>>

\* the new name exists: on to the next problem
RenumberSkip ==
    /\ pc = "loop"
    /\ ret.i <= Len(ret.problems)
    /\ Exists(doc.root, NewIdentifierNow)
    /\ ret' = [ret EXCEPT !.i = @ + 1]
    /\ UNCHANGED <<heap, doc, pc, tree, out, raised>>

\* the loop has ended
RenumberReturn ==
    /\ pc = "loop"
    /\ ret.i > Len(ret.problems)
    /\ pc' = "renumbered"
    /\ UNCHANGED <<heap, ret, doc, tree, out, raised>>

RenumberStepsNext ==
    RenumberLoad \/ RenumberMove \/ RenumberCallback \/ RenumberSkip \/ RenumberReturn

SpecRenumberSteps == RenumberInit /\ [][RenumberStepsNext]_vars

(***************************************************************************)
(* Claims about the node API, checked under Spec.                          *)
(***************************************************************************)
Range(f) == {f[i] : i \in DOMAIN f}

IsPrefix(s, t) == Len(s) <= Len(t) /\ \A i \in 1..Len(s) : s[i] = t[i]

\* the call the step made was parent.add_child(child)
CalledAddChild == ret'.op = "add_child"

\* ... with a child whose class is not in the parent's allowed_child_types
ChildTypeRefused ==
    heap[ret'.child].type \notin Range(AllowedChildTypes(heap[ret'.node].type))

\* C1: add_child with a child whose runtime type is not in the parent's
\* allowed-child-type set raises IllegalChild in that very call, and the
\* parent's child sequence (and every other object) is what it was before the
\* call: the offending child is not appended.
C1_IllegalChildRejected ==
    [][(CalledAddChild /\ ChildTypeRefused)
          => /\ ret'.exc = "IllegalChild"
             /\ heap'[ret'.node].kids = heap[ret'.node].kids
             /\ heap' = heap]_vars

\* an add_child call has just been refused on a parent that has children
C1_Witness ==
    /\ ret.op = "add_child"
    /\ ret.exc = "IllegalChild"
    /\ heap[ret.node].kids # <<>>

\* C2: add_child with a child whose type is in the parent's allowed set
\* succeeds and appends the child at the end, and no call ever reorders or
\* drops children that are already attached: every node's child sequence only
\* grows at its end, so it lists the added children in insertion order.
C2_AppendsInOrder ==
    [][/\ \A n \in Ids(heap) : IsPrefix(heap[n].kids, heap'[n].kids)
       /\ (CalledAddChild /\ ~ChildTypeRefused)
            => /\ ret'.exc = "none"
               /\ heap' = [heap EXCEPT ![ret'.node].kids = Append(@, ret'.child)]]_vars

\* a second, different child has just been attached behind the first
C2_Witness ==
    /\ ret.op = "add_child"
    /\ ret.exc = "none"
    /\ Len(heap[ret.node].kids) = 2
    /\ heap[ret.node].kids[1] # heap[ret.node].kids[2]
    /\ heap[ret.node].kids[2] = ret.child

\* the table of allowed children of the data model
TableAllowed(t) ==
    CASE t = "Problem" ->
            {"Subproblem", "Code", "DisplayMath", "Image", "MultipleChoices",
             "MultipleSelect", "TrueFalse", "FillInTheBlank", "Solution",
             "NormalText", "BoldText", "ItalicText", "InlineMath", "InlineCode",
             "Paragraph"}
      [] t = "Subproblem" ->
            {"Code", "DisplayMath", "Image", "MultipleChoices",
             "MultipleSelect", "TrueFalse", "FillInTheBlank", "Solution",
             "NormalText", "BoldText", "ItalicText", "InlineMath", "InlineCode",
             "Paragraph"}
      [] t = "Paragraph" ->
            {"NormalText", "BoldText", "ItalicText", "InlineMath", "InlineCode"}
      [] t \in {"MultipleChoices", "MultipleSelect"} -> {"Choice"}
      [] t \in {"Choice", "FillInTheBlank", "Solution"} ->
            {"NormalText", "BoldText", "ItalicText", "InlineMath", "DisplayMath",
             "Code", "InlineCode", "Image", "Paragraph"}
      [] OTHER -> {}

KidTypes(h, n) == {h[h[n].kids[i]].type : i \in 1..Len(h[n].kids)}

\* C3: whatever constructions and add_child calls were made, and whether they
\* succeeded or failed, every child of every internal node has a type in that
\* node's allowed set as the table gives it; in particular a Subproblem holds
\* no Subproblem, a Paragraph only the five text-like leaves, a choice
\* container only Choices, and a Choice, Solution or FillInTheBlank no
\* Subproblem, Solution, TrueFalse or choice container.
C3_ChildrenAllowed ==
    \A n \in Ids(heap) :
        /\ KidTypes(heap, n) \subseteq TableAllowed(heap[n].type)
        /\ heap[n].type = "Subproblem" => "Subproblem" \notin KidTypes(heap, n)
        /\ heap[n].type \in {"Choice", "Solution", "FillInTheBlank"} =>
              KidTypes(heap, n) \cap
                  {"Subproblem", "Solution", "TrueFalse", "MultipleChoices",
                   "MultipleSelect"} = {}
        /\ heap[n].type \in LeafTypes => heap[n].kids = <<>>

\* a call has just failed while a Subproblem with a child exists
C3_Witness ==
    /\ ret.exc = "IllegalChild"
    /\ \E n \in Ids(heap) : heap[n].type = "Subproblem" /\ heap[n].kids # <<>>

\* how often object c occurs in the child sequence of n, and in all of them
OccIn(h, n, c) == Cardinality({i \in 1..Len(h[n].kids) : h[n].kids[i] = c})

RECURSIVE SumOcc(_, _, _)
SumOcc(h, n, c) == IF n = 0 THEN 0 ELSE OccIn(h, n, c) + SumOcc(h, n - 1, c)

Occurrences(h, c) == SumOcc(h, Len(h), c)

\* C4 as claimed: ownership of children is exclusive: no node object is a
\* child of two different parents, and none occurs twice in one parent's
\* child sequence.
C4_ExclusiveOwnership == \A c \in Ids(heap) : Occurrences(heap, c) <= 1

\* C4 as amended: ownership is not enforced.  add_child checks the type of the
\* child only: a successful call adds exactly one occurrence of the child, to
\* the named parent, also when the child is already attached there or to
\* another parent, and no call removes an occurrence.  A node is shared or
\* repeated exactly when a client attaches it more than once.
C4_OneOccurrencePerAttach ==
    [][/\ \A n \in Ids(heap) : \A c \in Ids(heap) :
              OccIn(heap', n, c) >= OccIn(heap, n, c)
       /\ (CalledAddChild /\ ~ChildTypeRefused)
            => \A n \in Ids(heap) : \A c \in Ids(heap) :
                  OccIn(heap', n, c) =
                      OccIn(heap, n, c)
                          + (IF n = ret'.node /\ c = ret'.child THEN 1 ELSE 0)]_vars

\* a node that already has a parent has just been attached once more
C4_Witness ==
    /\ ret.op = "add_child"
    /\ ret.exc = "none"
    /\ Occurrences(heap, ret.child) = 2

(***************************************************************************)
(* Structural equality applied to pairs of trees: SpecEq builds two trees  *)
(* and compares their roots.                                               *)
(***************************************************************************)
\* children of one node in the compared trees
MaxEqKids == 2

EqStrs == {<<"a">>, <<"b">>}

\* every leaf class with every choice of attribute values
EqLeaves ==
    {Leaf(t, [text |-> x]) : t \in TextTypes, x \in EqStrs}
    \cup {Leaf(t, [latex |-> x]) : t \in {"DisplayMath", "InlineMath"}, x \in EqStrs}
    \cup {Leaf(t, [language |-> x[1], code |-> x[2]]) :
             t \in {"Code", "InlineCode"}, x \in EqStrs \X EqStrs}
    \cup {Leaf("Image", [relative_path |-> x[1], data |-> x[2]]) : x \in EqStrs \X EqStrs}
    \cup {Leaf("TrueFalse", [solution |-> x]) : x \in BOOLEAN}

\* the leaves given to containers as children
EqKidLeaves ==
    {Leaf("NormalText", [text |-> <<"a">>]), Leaf("NormalText", [text |-> <<"b">>]),
     Leaf("BoldText", [text |-> <<"a">>])}

\* every internal class (a Choice with either flag) over those leaves
EqFlat ==
    {Inner(t, <<>>, ks) : t \in InternalTypes \ {"Choice"}, ks \in SeqUpTo(EqKidLeaves, MaxEqKids)}
    \cup {Inner("Choice", [correct |-> c], ks) :
             c \in BOOLEAN, ks \in SeqUpTo(EqKidLeaves, MaxEqKids)}

\* the containers given to containers as children
EqKidInner ==
    {Inner("Choice", [correct |-> TRUE], <<>>),
     Inner("Choice", [correct |-> FALSE], <<>>),
     Inner("Choice", [correct |-> FALSE], <<Leaf("NormalText", [text |-> <<"a">>])>>),
     Inner("Solution", <<>>, <<>>),
     Inner("Solution", <<>>, <<Leaf("NormalText", [text |-> <<"a">>])>>),
     Inner("Solution", <<>>, <<Leaf("NormalText", [text |-> <<"b">>])>>)}

EqDeep ==
    {Inner(t, <<>>, ks) : t \in {"Problem", "MultipleChoices", "MultipleSelect"},
                           ks \in SeqUpTo(EqKidInner, MaxEqKids) \ {<<>>}}

\* the trees compared: those of the above the constructors accept
EqTrees == {tv \in EqLeaves \cup EqFlat \cup EqDeep : Build(<<>>, tv).exc = "none"}

EqInit ==
    /\ \E x \in EqTrees : \E y \in EqTrees :
           LET a == Build(<<>>, x)
               b == Build(a.h, y)
           IN  /\ heap = b.h
               /\ ret = [op |-> "built", node |-> a.id, child |-> b.id, exc |-> "none"]
    /\ ParseIdle

\* a == b for the two roots
Compare ==
    /\ ret.op = "built"
    /\ ret' = [op |-> "eq", node |-> ret.node, child |-> ret.child, exc |-> "none",
               val |-> NodeEq(heap, ret.node, ret.child)]
    /\ UNCHANGED <<heap, doc, pc, tree, out, raised>>

EqNext == Compare

SpecEq == EqInit /\ [][EqNext]_vars

\* a node as a value: its class, the values of the attributes the class
\* declares, and its children as values, in order
RECURSIVE Shape(_, _)
Shape(h, n) ==
    <<h[n].type,
      [i \in 1..Len(Attrs(h[n].type)) |-> h[n].attrs[Attrs(h[n].type)[i]]],
      [i \in 1..Len(h[n].kids) |-> Shape(h, h[n].kids[i])]>>

\* C5: a == b holds if and only if a and b are the same tree: the same
\* concrete type, equal values of every declared attribute, the same number
\* of children and pairwise equal children in the same order, recursively.
\* So one changed attribute, one child more or less, or two unequal children
\* swapped make the nodes unequal.
C5_EqualityIsStructural ==
    ret.op = "eq" => (ret.val <=> Shape(heap, ret.node) = Shape(heap, ret.child))

\* two containers compared unequal although one's children are the first
\* children of the other's
C5_Witness ==
    /\ ret.op = "eq"
    /\ ~ret.val
    /\ heap[ret.node].type = heap[ret.child].type
    /\ Len(heap[ret.node].kids) = 1
    /\ Len(heap[ret.child].kids) = 2
    /\ Shape(heap, heap[ret.node].kids[1]) = Shape(heap, heap[ret.child].kids[1])

(***************************************************************************)
(* Claims about the conversion, checked on the parses of Docs.             *)
(***************************************************************************)
RECURSIVE MarkupNodes(_)
\* the nodes of a markup tree
MarkupNodes(n) == {n} \cup UNION {MarkupNodes(n.contents[i]) : i \in DOMAIN n.contents}

\* the name of n is a key of the table of its kind
KnownConstruct(n) ==
    \/ n.kind = "env" /\ n.name \in ENV_PARSERS
    \/ n.kind = "cmd" /\ n.name \in CMD_PARSERS

\* a construct whose name is in neither table of its kind
UnknownConstruct(n) == n.kind # "str" /\ ~KnownConstruct(n)

\* the classes the table entry of a known construct makes
ClassesOf(n) ==
    IF n.kind = "env"
    THEN CASE n.name = "prob" -> {"Problem"}
           [] n.name = "subprob" -> {"Subproblem"}
           [] n.name = "soln" -> {"Solution"}
           [] n.name = "choices" -> {"MultipleChoices", "MultipleSelect"}
           [] n.name = "$" -> {"InlineMath"}
           [] n.name \in {"$$", "displaymath", "align"} -> {"DisplayMath"}
           [] n.name = "minted" -> {"Code"}
           [] OTHER -> NodeTypes
    ELSE CASE n.name = "textbf" -> {"BoldText"}
           [] n.name = "textit" -> {"ItalicText"}
           [] n.name = "mintinline" -> {"InlineCode"}
           [] n.name \in {"Tf", "tF"} -> {"TrueFalse"}
           [] n.name = "includegraphics" -> {"Image"}
           [] n.name = "inputminted" -> {"Code"}
           [] OTHER -> NodeTypes

\* the nodes a known container hands to the conversion in turn
Handed(n) ==
    IF n.kind # "env" \/ ~KnownConstruct(n) THEN {}
    ELSE CASE n.name = "[tex]" -> IF Len(n.contents) = 1 THEN {n.contents[1]} ELSE {}
           [] n.name = "prob" -> Range(ProbItems(n.contents))
           [] n.name \in {"subprob", "soln"} -> Range(n.contents)
           [] n.name = "choices" ->
                UNION {Range(Tail(seg)) : seg \in Range(Segment(ChoicesContents(n)))}
           [] OTHER -> {}

RECURSIVE Reached(_)
\* the nodes the conversion of n reaches when nothing fails before them
Reached(n) == {n} \cup UNION {Reached(c) : c \in Handed(n)}

\* C6: the conversion of a span of raw text is a NormalText holding that
\* text.  Any other node is looked up by its name in the table of its kind,
\* ENV_PARSERS for an environment and CMD_PARSERS for a command: a name of
\* that table gives a node of the class of its entry, and a name absent from
\* it raises the ValueError that names the construct.  When the conversion of
\* a document reaches such a construct, parse raises and returns no tree.
C6_ConvertDispatch ==
    /\ \A n \in MarkupNodes(doc.soup) :
          LET r == ConvertSoupNode(<<>>, n, doc.path)
          IN  /\ n.kind = "str" =>
                    /\ r.exc = "none"
                    /\ r.h[r.id].type = "NormalText"
                    /\ r.h[r.id].attrs.text = n.str
              /\ UnknownConstruct(n) =>
                    r.exc = "ValueError" /\ r.what = n.name /\ r.id = 0
              /\ KnownConstruct(n) /\ r.exc = "none" => r.h[r.id].type \in ClassesOf(n)
    /\ pc # "start" /\ (\E n \in Reached(doc.soup) : UnknownConstruct(n)) =>
          pc = "raised" /\ raised.exc # "none" /\ tree = 0 /\ out = 0
    /\ raised.exc = "ValueError" /\ raised.what # "unpack" =>
          \E n \in Reached(doc.soup) : UnknownConstruct(n) /\ n.name = raised.what

\* an environment of no table, nested in a subprob of a prob, has made parse
\* raise the error that names it
C6_Witness ==
    /\ pc = "raised"
    /\ raised = [exc |-> "ValueError", what |-> "foo"]
    /\ tree = 0
    /\ doc.soup.contents[1].name = "prob"
    /\ \E c \in Range(doc.soup.contents[1].contents) :
          c.name = "subprob" /\ \E g \in Range(c.contents) : g.name = "foo"

\* the document is one prob
IsProbDoc == Len(doc.soup.contents) = 1 /\ doc.soup.contents[1].kind = "env"
                                       /\ doc.soup.contents[1].name = "prob"

\* the children of the prob of the document
ProbContents == doc.soup.contents[1].contents

IsSubprobset(n) == n.kind # "str" /\ n.name = "subprobset"

RECURSIVE Spliced(_)
\* cs with the children of every subprobset at the place of that subprobset
Spliced(cs) ==
    IF cs = <<>> THEN <<>>
    ELSE (IF IsSubprobset(Head(cs)) THEN Head(cs).contents ELSE <<Head(cs)>>)
         \o Spliced(Tail(cs))

RECURSIVE FromSubprobset(_)
\* for each node of Spliced(cs), whether it came out of a subprobset
FromSubprobset(cs) ==
    IF cs = <<>> THEN <<>>
    ELSE (IF IsSubprobset(Head(cs)) THEN [i \in 1..Len(Head(cs).contents) |-> TRUE]
          ELSE <<FALSE>>)
         \o FromSubprobset(Tail(cs))

\* the conversion of a markup node on its own
Alone(n) == ConvertSoupNode(<<>>, n, doc.path)

\* the tree a conversion on its own made
ShapeOf(r) == Shape(r.h, r.id)

\* C7 as stated: a subprobset directly in a prob leaves no node of its own;
\* its children are converted and attached to the Problem in order at its
\* place, and every node so attached is a Subproblem.
C7_AttachedAreSubproblems ==
    IsProbDoc /\ tree # 0 =>
        /\ Len(heap[tree].kids) = Len(Spliced(ProbContents))
        /\ \A i \in 1..Len(heap[tree].kids) :
              /\ Shape(heap, heap[tree].kids[i]) = ShapeOf(Alone(Spliced(ProbContents)[i]))
              /\ FromSubprobset(ProbContents)[i] => heap[heap[tree].kids[i]].type = "Subproblem"

\* C7, amended: a subprobset directly in a prob leaves no node of its own;
\* the children of the Problem are, in order, the conversions of the children
\* of the prob with the children of each subprobset at the place of that
\* subprobset.  Such a child is converted like any other: it gives a
\* Subproblem when it is a subprob, and what its own conversion gives when it
\* is not.  When one of these conversions fails, so does that of the prob.
C7_SubprobsetUnwrapped ==
    IsProbDoc /\ pc # "start" =>
        LET items == Spliced(ProbContents)
        IN  IF \A i \in 1..Len(items) : Alone(items[i]).exc = "none"
            THEN /\ tree # 0
                 /\ heap[tree].type = "Problem"
                 /\ Len(heap[tree].kids) = Len(items)
                 /\ \A i \in 1..Len(items) :
                       /\ Shape(heap, heap[tree].kids[i]) = ShapeOf(Alone(items[i]))
                       /\ items[i].kind = "env" /\ items[i].name = "subprob" =>
                             heap[heap[tree].kids[i]].type = "Subproblem"
            ELSE pc = "raised" /\ tree = 0

\* a prob with a text and then a subprobset of two subprobs has become a
\* Problem with three children, the two Subproblems after the text
C7_Witness ==
    /\ IsProbDoc
    /\ pc = "converted"
    /\ Len(ProbContents) = 2
    /\ ~IsSubprobset(ProbContents[1])
    /\ IsSubprobset(ProbContents[2])
    /\ [i \in 1..Len(heap[tree].kids) |-> heap[heap[tree].kids[i]].type]
          = <<"NormalText", "Subproblem", "Subproblem">>

\* the document is a prob that holds one choices environment
IsChoicesDoc ==
    /\ IsProbDoc
    /\ Len(ProbContents) = 1
    /\ ProbContents[1].kind = "env"
    /\ ProbContents[1].name = "choices"

\* the choices environment of the document
ChoicesEnv == ProbContents[1]

\* a choice marker
IsMarker(n) == n.kind # "str" /\ n.name \in {"choice", "correctchoice"}

\* the indices 1..n in order
Indices(n) == [i \in 1..n |-> i]

\* the indices of the markers of items, in order
Markers(items) == SelectSeq(Indices(Len(items)), LAMBDA i : IsMarker(items[i]))

\* the indices where a segment of items starts: the markers, and the first
\* index when the first item is no marker
Starts(items) ==
    SelectSeq(Indices(Len(items)), LAMBDA i : IsMarker(items[i]) \/ i = 1)

\* the items after the j-th of the indices at, up to the next of them or the end
Between(items, at, j) ==
    SubSeq(items, at[j] + 1, IF j < Len(at) THEN at[j + 1] - 1 ELSE Len(items))

\* the node made of the choices environment
ChoicesNode == heap[tree].kids[1]

\* the j-th child of ChoicesNode is the Choice of the segment that starts at
\* at[j]: correct iff that item is \correctchoice, its children the
\* conversions of the items after it
IsChoiceOf(items, at, j) ==
    LET c == heap[ChoicesNode].kids[j]
        body == Between(items, at, j)
    IN  /\ heap[c].type = "Choice"
        /\ heap[c].attrs.correct = (items[at[j]].name = "correctchoice")
        /\ Len(heap[c].kids) = Len(body)
        /\ \A i \in 1..Len(body) : Shape(heap, heap[c].kids[i]) = ShapeOf(Alone(body[i]))

\* the conversion of n on its own gives a node that a Choice takes as child
FitsChoice(n) ==
    /\ Alone(n).exc = "none"
    /\ Alone(n).h[Alone(n).id].type \in TableAllowed("Choice")

\* every item after the first of each segment starting at at fits a Choice
BodiesFit(items, at) ==
    \A j \in 1..Len(at) : \A n \in Range(Between(items, at, j)) : FitsChoice(n)

\* the children of ChoicesNode are the Choices of the segments starting at at
AreChoicesOf(items, at) ==
    /\ pc # "raised"
    /\ tree # 0
    /\ Len(heap[ChoicesNode].kids) = Len(at)
    /\ \A j \in 1..Len(at) : IsChoiceOf(items, at, j)

\* C8 as stated: for every contents sequence of a choices environment the
\* result has one Choice per marker, in marker order, correct iff the marker
\* is \correctchoice, with the conversions of the nodes between that marker
\* and the next as children.
C8_OneChoicePerMarker ==
    IsChoicesDoc /\ pc # "start" /\ ChoicesEnv.args = <<>>
                 /\ (\A n \in Range(ChoicesEnv.contents) : IsMarker(n) \/ FitsChoice(n)) =>
        AreChoicesOf(ChoicesEnv.contents, Markers(ChoicesEnv.contents))

\* C8, what the conversion does instead: the contents that are segmented
\* (those of the environment, less the first when the style is rectangle)
\* give one Choice per segment, in order.  A segment starts at each marker,
\* and at the first node when that is no marker.  The first node of a
\* segment is taken for its marker and is not converted: the Choice is
\* correct iff it is \correctchoice, and has the conversions of the other
\* nodes of the segment as children.  A span of raw text as first node
\* raises AttributeError; a node that does not convert, or that a Choice
\* refuses, makes the conversion raise.  So only contents that begin with a
\* marker give exactly one Choice per marker.
C8_OneChoicePerSegment ==
    IsChoicesDoc /\ pc # "start" =>
        LET items == ChoicesContents(ChoicesEnv)
        IN  IF items # <<>> /\ items[1].kind = "str"
            THEN pc = "raised" /\ raised.exc = "AttributeError" /\ tree = 0
            ELSE IF ~BodiesFit(items, Starts(items))
            THEN pc = "raised" /\ tree = 0
            ELSE /\ AreChoicesOf(items, Starts(items))
                 /\ (items = <<>> \/ IsMarker(items[1])) =>
                        AreChoicesOf(items, Markers(items))

\* the contents [textbf, choice, a] with one marker have given two Choices:
\* the first in place of the textbf, which is lost, the second for the marker
C8_Witness ==
    /\ IsChoicesDoc
    /\ pc = "converted"
    /\ ChoicesEnv.args = <<>>
    /\ Len(ChoicesEnv.contents) = 3
    /\ ChoicesEnv.contents[1].name = "textbf"
    /\ Markers(ChoicesEnv.contents) = <<2>>
    /\ Len(heap[ChoicesNode].kids) = 2
    /\ heap[heap[ChoicesNode].kids[1]].kids = <<>>
    /\ ~heap[heap[ChoicesNode].kids[1]].attrs.correct
    /\ \A n \in Ids(heap) : heap[n].type # "BoldText"

\* the same environment without its style argument
WithoutStyle(n) == Env("choices", <<>>, Tail(n.contents))

\* C9 as stated: a choices environment becomes a MultipleSelect iff its
\* style argument is rectangle and a MultipleChoices otherwise, and in both
\* cases its Choices are those of the same environment without the style
\* argument.
C9_StyleArgument ==
    IsChoicesDoc /\ pc # "start" /\ ChoicesEnv.args # <<>>
                 /\ Alone(WithoutStyle(ChoicesEnv)).exc = "none" =>
        /\ pc # "raised"
        /\ tree # 0
        /\ heap[ChoicesNode].type =
              (IF ChoicesEnv.args[1] = <<"rectangle">> THEN "MultipleSelect"
               ELSE "MultipleChoices")
        /\ [i \in 1..Len(heap[ChoicesNode].kids) |-> Shape(heap, heap[ChoicesNode].kids[i])]
              = Shape(Alone(WithoutStyle(ChoicesEnv)).h, Alone(WithoutStyle(ChoicesEnv)).id)[3]

\* the style argument oval before \choice a has become a Choice of its own
C9_Witness ==
    /\ IsChoicesDoc
    /\ pc = "converted"
    /\ ChoicesEnv.args = <<<<"oval">>>>
    /\ Len(ChoicesEnv.contents) = 3
    /\ Markers(ChoicesEnv.contents) = <<2>>
    /\ heap[ChoicesNode].type = "MultipleChoices"
    /\ Len(heap[ChoicesNode].kids) = 2
    /\ heap[heap[ChoicesNode].kids[1]].kids = <<>>

(***************************************************************************)
(* Claims about the paragraph pass, checked on the parses of Docs: tree is *)
(* the tree handed to the pass and out the tree it returned.               *)
(***************************************************************************)
\* the classes of the nodes that go into paragraphs
Eligible == {"NormalText", "BoldText", "ItalicText", "InlineMath", "InlineCode"}

IsEligible(h, n) == h[n].type \in Eligible

RECURSIVE CountFrom(_, _)
\* the occurrences of two newlines in s from index i on, counted left to
\* right without overlap
CountFrom(s, i) ==
    IF i + 1 > Len(s) THEN 0
    ELSE IF s[i] = NL /\ s[i + 1] = NL THEN 1 + CountFrom(s, i + 2)
    ELSE CountFrom(s, i + 1)

\* the double newlines in the text of a node; a node without text has none
Breaks(h, n) ==
    IF "text" \in DOMAIN h[n].attrs THEN CountFrom(h[n].attrs.text, 1) ELSE 0

RECURSIVE BreaksIn(_, _)
\* the double newlines in the texts of the nodes ns
BreaksIn(h, ns) == IF ns = <<>> THEN 0 ELSE Breaks(h, Head(ns)) + BreaksIn(h, Tail(ns))

RECURSIVE RunLen(_, _)
\* the length of the longest prefix of ns of eligible nodes
RunLen(h, ns) ==
    IF ns = <<>> \/ ~IsEligible(h, Head(ns)) THEN 0 ELSE 1 + RunLen(h, Tail(ns))

RECURSIVE Rewritten(_, _, _)
RECURSIVE RewrittenKids(_, _, _)
\* bs are the children the pass gives a node whose children were as: for
\* each maximal run of eligible nodes with k double newlines k + 1
\* Paragraphs, which for k = 0 is one Paragraph that holds the nodes of the
\* run themselves in order; for every other node, in its place, the node
\* itself when it is a leaf and its rewriting when it is a container
RewrittenKids(h, as, bs) ==
    IF as = <<>> THEN bs = <<>>
    ELSE IF IsEligible(h, Head(as))
    THEN LET run == SubSeq(as, 1, RunLen(h, as))
             k == BreaksIn(h, run)
         IN  /\ Len(bs) >= k + 1
             /\ \A i \in 1..(k + 1) : h[bs[i]].type = "Paragraph"
             /\ k = 0 => h[bs[1]].kids = run
             /\ RewrittenKids(h, SubSeq(as, Len(run) + 1, Len(as)),
                                 SubSeq(bs, k + 2, Len(bs)))
    ELSE /\ bs # <<>>
         /\ h[Head(bs)].type # "Paragraph"
         /\ IF h[Head(as)].type \in InternalTypes THEN Rewritten(h, Head(as), Head(bs))
            ELSE Head(bs) = Head(as)
         /\ RewrittenKids(h, Tail(as), Tail(bs))

\* b is the node the pass gives for the container a
Rewritten(h, a, b) ==
    /\ h[b].type = h[a].type
    /\ h[b].attrs = h[a].attrs
    /\ RewrittenKids(h, h[a].kids, h[b].kids)

\* C10: in the tree the paragraph pass returns, each maximal run of
\* consecutive paragraph-eligible children of a node whose members' texts hold
\* k double newlines, counted without overlap, is replaced by exactly k + 1
\* consecutive Paragraphs; with k = 0 the run becomes one Paragraph that
\* holds all members of the run, unsplit and in order.
C10_ParagraphCount == pc = "returned" => Rewritten(heap, tree, out)

\* a run of a NormalText and a BoldText with one double newline each has
\* become three Paragraphs
C10_Witness ==
    /\ pc = "returned"
    /\ Len(heap[tree].kids) = 2
    /\ heap[heap[tree].kids[1]].type = "NormalText"
    /\ heap[heap[tree].kids[2]].type = "BoldText"
    /\ Breaks(heap, heap[tree].kids[1]) = 1
    /\ Breaks(heap, heap[tree].kids[2]) = 1
    /\ [i \in 1..Len(heap[out].kids) |-> heap[heap[out].kids[i]].type]
          = <<"Paragraph", "Paragraph", "Paragraph">>

Min(a, b) == IF a <= b THEN a ELSE b

RECURSIVE RunPairs(_, _, _)
\* the maximal runs of eligible nodes among the children as of a node and at
\* every depth below, each with the Paragraphs that stand for it among the
\* children bs the pass gave
RunPairs(h, as, bs) ==
    IF as = <<>> \/ bs = <<>> THEN {}
    ELSE IF IsEligible(h, Head(as))
    THEN LET run == SubSeq(as, 1, RunLen(h, as))
             n == Min(BreaksIn(h, run) + 1, Len(bs))
         IN  {[run |-> run, pars |-> SubSeq(bs, 1, n)]}
             \cup RunPairs(h, SubSeq(as, Len(run) + 1, Len(as)), SubSeq(bs, n + 1, Len(bs)))
    ELSE (IF h[Head(as)].type \in InternalTypes
          THEN RunPairs(h, h[Head(as)].kids, h[Head(bs)].kids) ELSE {})
         \cup RunPairs(h, Tail(as), Tail(bs))

\* the runs of the tree handed to the pass, with their Paragraphs
Runs == RunPairs(heap, <<tree>>, <<out>>)

RECURSIVE PiecesFrom(_, _, _)
\* the pieces of s between its double newlines, read from index i on with
\* cur the piece read so far
PiecesFrom(s, i, cur) ==
    IF i > Len(s) THEN <<cur>>
    ELSE IF i + 1 <= Len(s) /\ s[i] = NL /\ s[i + 1] = NL
    THEN <<cur>> \o PiecesFrom(s, i + 2, <<>>)
    ELSE PiecesFrom(s, i + 1, Append(cur, s[i]))

\* the pieces of the text of a node; a node without text is one piece
Pieces(h, n) ==
    IF "text" \in DOMAIN h[n].attrs THEN PiecesFrom(h[n].attrs.text, 1, <<>>) ELSE <<0>>

\* a text node of class t that holds the piece p
PieceShape(t, p) == <<t, <<p>>, <<>>>>

RECURSIVE ParagraphsFrom(_, _, _)
\* the children of the Paragraphs of a run, from its members ns on with cur
\* the children of the Paragraph being filled: a member of one piece goes
\* into it as it is; of a member of several pieces the first piece ends it,
\* each piece but the first and last is a Paragraph alone, and the last
\* piece begins the next
ParagraphsFrom(h, ns, cur) ==
    IF ns = <<>> THEN <<cur>>
    ELSE LET n == Head(ns)
             ps == Pieces(h, n)
         IN  IF Len(ps) = 1 THEN ParagraphsFrom(h, Tail(ns), Append(cur, Shape(h, n)))
             ELSE <<Append(cur, PieceShape(h[n].type, ps[1]))>>
                  \o [i \in 1..(Len(ps) - 2) |-> <<PieceShape(h[n].type, ps[i + 1])>>]
                  \o ParagraphsFrom(h, Tail(ns), <<PieceShape(h[n].type, ps[Len(ps)])>>)

\* the children of each of the Paragraphs ps
ChildrenOf(h, ps) ==
    [i \in 1..Len(ps) |-> [j \in 1..Len(h[ps[i]].kids) |-> Shape(h, h[ps[i]].kids[j])]]

\* a node that holds the empty text
IsEmptyText(h, n) == "text" \in DOMAIN h[n].attrs /\ h[n].attrs.text = <<>>

C12_PassDoesNotFail ==
    tree # 0 /\ heap[tree].type \in InternalTypes =>
        /\ pc \in {"converted", "returned"}
        /\ raised.exc = "none"
        /\ pc = "returned" => out # 0 /\ heap[out].type = heap[tree].type

\* the pass has returned the rewriting of a Solution, the root of its
\* document, that holds a text and a Code
C12_Witness ==
    /\ pc = "returned"
    /\ heap[tree].type = "Solution"
    /\ [i \in 1..Len(heap[tree].kids) |-> heap[heap[tree].kids[i]].type]
          = <<"NormalText", "Code">>
    /\ [i \in 1..Len(heap[out].kids) |-> heap[heap[out].kids[i]].type]
          = <<"Paragraph", "Code">>

RECURSIVE Below(_, _)
\* the objects of the tree with root n
Below(h, n) == {n} \cup UNION {Below(h, h[n].kids[i]) : i \in 1..Len(h[n].kids)}

\* the step in which the paragraph pass returns
PassReturns == pc = "converted" /\ pc' = "returned"

\* C13: the paragraph pass leaves the tree it is handed as it was, every
\* node with the same children in the same order and the same attributes,
\* and no internal node of that tree is an internal node of the tree it
\* returns: the internal nodes of the returned tree are all new objects.
C13_InputUnchanged ==
    [][PassReturns =>
          /\ \A n \in 1..Len(heap) : heap'[n] = heap[n]
          /\ Shape(heap', tree') = Shape(heap, tree)
          /\ \A n \in Below(heap', out') :
                heap'[n].type \in InternalTypes =>
                    n > Len(heap) /\ n \notin Below(heap, tree)]_vars

\* the pass has returned a Problem with a Solution, neither of them the
\* Problem or the Solution it was handed
C13_Witness ==
    /\ pc = "returned"
    /\ out # tree
    /\ Len(heap[tree].kids) = 1
    /\ heap[heap[tree].kids[1]].type = "Solution"
    /\ heap[heap[tree].kids[1]].kids # <<>>
    /\ heap[heap[out].kids[1]].type = "Solution"
    /\ heap[out].kids[1] # heap[tree].kids[1]

\* the places of the returned tree where c is a child: pairs of a parent and
\* an index
PlacesOf(c) ==
    {pl \in Below(heap, out) \X (1..Len(heap)) :
        pl[2] <= Len(heap[pl[1]].kids) /\ heap[pl[1]].kids[pl[2]] = c}

\* C14: in the tree parse returns, at every depth, no NormalText, BoldText,
\* ItalicText, InlineMath or InlineCode is a direct child of an internal node
\* other than a Paragraph; each of them is a child of exactly one Paragraph,
\* once; and every Paragraph has at least one child.
C14_EligibleInsideParagraphs ==
    pc = "returned" =>
        \A n \in Below(heap, out) :
            /\ heap[n].type = "Paragraph" => heap[n].kids # <<>>
            /\ IsEligible(heap, n) =>
                  /\ Cardinality(PlacesOf(n)) = 1
                  /\ \A pl \in PlacesOf(n) : heap[pl[1]].type = "Paragraph"

\* parse has returned a Problem whose Choice holds a Paragraph of an inline
\* math and a text, and whose own text is in a Paragraph too
C14_Witness ==
    /\ pc = "returned"
    /\ \E n \in Below(heap, out) :
          /\ heap[n].type = "Paragraph"
          /\ Len(heap[n].kids) = 2
          /\ heap[heap[n].kids[1]].type = "InlineMath"
          /\ heap[heap[n].kids[2]].type \in {"NormalText", "BoldText"}
    /\ \E n \in Below(heap, out) :
          /\ heap[n].type \in {"Choice", "Solution", "Subproblem"}
          /\ heap[n].kids # <<>>
          /\ heap[heap[n].kids[1]].type = "Paragraph"

\* the conversion of the whole document, on its own
Conversion == Alone(doc.soup)

\* the step is one of the paragraph pass: it makes a Paragraph or a tree to
\* return, or it ends the parse after the conversion
IsPassStep ==
    \/ out' # out
    \/ pc' = "returned"
    \/ \E n \in (Len(heap) + 1)..Len(heap') : heap'[n].type = "Paragraph"

\* C15: within one parse the paragraph pass starts only after the conversion
\* of the whole document, nested dispatch included, has returned its tree; if
\* the conversion fails at any construct the parse ends with that error, the
\* paragraph pass never runs and no tree is returned.
C15_PassesOrdered ==
    [][/\ IsPassStep =>
            /\ pc = "converted"
            /\ Conversion.exc = "none"
            /\ tree # 0 /\ Shape(heap, tree) = ShapeOf(Conversion)
       /\ pc' = "converted" => pc = "start" /\ Conversion.exc = "none"
       /\ Conversion.exc # "none" =>
            /\ pc = "start" /\ pc' = "raised"
            /\ raised'.exc = Conversion.exc
            /\ out' = 0 /\ tree' = 0
            /\ \A n \in 1..Len(heap') : heap'[n].type # "Paragraph"]_vars

\* the conversion of a prob failed at a nested construct after some of the
\* prob's nodes had been made; the parse ended with no tree
C15_Witness ==
    /\ pc = "raised"
    /\ raised.exc # "none"
    /\ Conversion.exc = raised.exc
    /\ heap # <<>>
    /\ tree = 0 /\ out = 0

IsFileDoc == doc.soup \in FileDocs

\* the construct of the document that reads a file
FileItem ==
    CHOOSE a \in FileItems :
        doc.soup \in {Soup(<<Prob(<<a>>)>>), Soup(<<Prob(<<Txt(<<"x">>), a>>)>>),
                      Soup(<<Prob(<<Env("soln", <<>>, <<a>>)>>)>>)}

\* the path the construct names, relative to the problem directory
RelPath == StripThisDir(FileItem.args[Len(FileItem.args)])

\* there is a problem directory and it has the file
Readable == doc.path # "None" /\ RelPath \in DOMAIN Files

\* s ends with t
IsSuffix(t, s) ==
    Len(t) <= Len(s) /\ SubSeq(s, Len(s) - Len(t) + 1, Len(s)) = t

\* the errors of opening a file, which carry the path of the file
ResourceErrors == {"FileNotFoundError"}

\* the leaves of the returned tree made from the file
FileLeaves ==
    {n \in Below(heap, out) :
        \/ heap[n].type = "Image" /\ FileItem.name = "includegraphics"
        \/ heap[n].type = "Code" /\ FileItem.name = "inputminted"}

FileContent(n) ==
    IF heap[n].type = "Image" THEN heap[n].attrs.data ELSE heap[n].attrs.code

\* C16: an includegraphics or inputminted whose file cannot be read relative
\* to the problem directory makes parse fail with an error of resolving the
\* resource that names the path, and no tree is returned; when the file can
\* be read, the Image or Code made from it holds exactly the bytes of the
\* file.
C16_FileConstructs ==
    IsFileDoc /\ pc \in {"returned", "raised"} =>
        IF Readable
        THEN /\ pc = "returned"
             /\ FileLeaves # {}
             /\ \A n \in FileLeaves : FileContent(n) = Files[RelPath]
        ELSE /\ pc = "raised"
             /\ raised.exc \in ResourceErrors
             /\ IsSuffix(RelPath, raised.what)
             /\ out = 0

\* parse was given no path and the document has an includegraphics: the
\* parse ended with a TypeError that does not name the file
C16_Witness ==
    /\ IsFileDoc
    /\ FileItem.name = "includegraphics"
    /\ doc.path = "None"
    /\ pc = "raised"
    /\ raised.exc = "TypeError"
    /\ ~IsSuffix(RelPath, raised.what)

\* what parse does with the file constructs: with a problem directory, a
\* missing file ends the parse with FileNotFoundError naming the path and no
\* tree, an image holds the bytes of its file and a code the text of its file
\* with every line end read as "\n"; without a problem directory the parse
\* ends with TypeError
C16_FileReads ==
    IsFileDoc /\ pc \in {"returned", "raised"} =>
        IF Readable
        THEN /\ pc = "returned"
             /\ FileLeaves # {}
             /\ \A n \in FileLeaves :
                   FileContent(n) = IF heap[n].type = "Image" THEN Files[RelPath]
                                    ELSE UniversalNewlines(Files[RelPath])
        ELSE /\ pc = "raised"
             /\ out = 0
             /\ IF doc.path = "None" THEN raised.exc = "TypeError"
                ELSE raised.exc = "FileNotFoundError" /\ IsSuffix(RelPath, raised.what)

IsResponseBoxDoc == doc.soup \in ResponseBoxDocs

\* the response box of the document
ResponseBox ==
    CHOOSE n \in MarkupNodes(doc.soup) : n.kind # "str" /\ n.name \in ResponseBoxNames

\* C17: the converter has a conversion registered for the inline response
\* box that makes a FillInTheBlank of the converted contents of the command,
\* so that a document with a response box parses to a tree that holds a
\* FillInTheBlank with those children.
C17_ResponseBoxConverted ==
    IsResponseBoxDoc =>
        /\ ResponseBox.name \in ENV_PARSERS \cup CMD_PARSERS
        /\ pc # "raised"
        /\ pc = "returned" =>
              \E n \in Below(heap, out) :
                  /\ heap[n].type = "FillInTheBlank"
                  /\ Len(heap[n].kids) = Len(ResponseBox.contents)

\* the parse of a prob with a response box has ended with the error of an
\* unknown construct that names the response box
C17_Witness ==
    /\ IsResponseBoxDoc
    /\ pc = "raised"
    /\ raised = [exc |-> "ValueError", what |-> ResponseBox.name]
    /\ out = 0

\* no parse makes a FillInTheBlank
C17_NoFillInTheBlank ==
    \A n \in 1..Len(heap) : heap[n].type # "FillInTheBlank"

\* the nodes of the rendered tree render has no way to render: a node of a
\* class without an entry in _RENDERERS, unless it is a Subproblem of a
\* Problem or a Choice of a MultipleChoices or MultipleSelect
NoRenderer ==
    {n \in Below(heap, tree) :
        /\ heap[n].type \notin RENDERERS
        /\ ~\E q \in Below(heap, tree) :
              /\ n \in Range(heap[q].kids)
              /\ \/ heap[q].type = "Problem" /\ heap[n].type = "Subproblem"
                 \/ heap[q].type \in {"MultipleChoices", "MultipleSelect"}}

\* C18: rendering a finished tree either renders every node of it or fails
\* with the error that says there is no renderer for a type; it fails in no
\* other way and skips no node.
C18_RendersAllOrNoRenderer ==
    pc # "finished" =>
        \/ pc = "rendered" /\ ret.seen = Below(heap, tree)
        \/ pc = "raised" /\ raised.exc = "NotImplementedError"

\* render of a Problem with children, as the constructor of types.py left
\* it, has raised AttributeError for its metadata
C18_Witness ==
    /\ pc = "raised"
    /\ raised = [exc |-> "AttributeError", what |-> "metadata"]
    /\ heap[tree].type = "Problem"
    /\ heap[tree].attrs = <<>>
    /\ heap[tree].kids # <<>>
    /\ NoRenderer = {}

\* what render does: a Problem without a metadata attribute raises
\* AttributeError; otherwise a node without a renderer raises the error that
\* names its class, and a tree without such a node is rendered whole
C18_RenderOutcome ==
    pc # "finished" =>
        IF heap[tree].type = "Problem" /\ "metadata" \notin DOMAIN heap[tree].attrs
        THEN pc = "raised" /\ raised.exc = "AttributeError"
        ELSE IF NoRenderer # {}
        THEN /\ pc = "raised" /\ raised.exc = "NotImplementedError"
             /\ \E n \in NoRenderer : heap[n].type = raised.what
        ELSE pc = "rendered" /\ ret.seen = Below(heap, tree)

\* the names of the problem directories of the bank
ProblemDirs ==
    {name \in DOMAIN doc.root : ~IsSkipped(doc.root, name) /\ doc.root[name].kind = "problem"}

\* the names 1..n, each padded with zeros to the number of digits of n
Contiguous(n) == {Zfill(Str(i), Len(Str(n))) : i \in 1..n}

\* the names the problem directories had before renumber
Before == {doc.root[name].was : name \in ProblemDirs}

\* the root holds problem directories only, their names all of one length
SameWidth ==
    /\ \A name \in DOMAIN doc.root : doc.root[name].kind = "problem" /\ IsNumeric(name)
    /\ \A a \in Before : \A b \in Before : Len(a) = Len(b)

\* C19: after renumber has returned on a loadable bank of n problems,
\* whatever gaps and zero padding the names of its directories had, the
\* problem directories are named exactly 1..n, each padded with zeros to the
\* number of digits of n.
C19_Contiguous ==
    pc = "renumbered" => ProblemDirs = Contiguous(Cardinality(ProblemDirs))

\* renumber has returned on the bank of the problems 02 and 1: problem 02
\* was left where it was and problem 1 is now 2
C19_Witness ==
    /\ pc = "renumbered"
    /\ DOMAIN doc.root = {<<"0", "2">>, <<"2">>}
    /\ doc.root[<<"2">>].was = <<"1">>
    /\ ret.moves = <<<<<<"1">>, <<"2">>>>>>

\* renumber on a bank of problem directories whose names have one length
\* makes the names contiguous
C19_SameWidthContiguous ==
    pc = "renumbered" /\ SameWidth => ProblemDirs = Contiguous(Cardinality(ProblemDirs))

\* C20: renumber keeps the order of the problems: of two problems of a
\* loadable bank, the one with the numerically smaller identifier before
\* renumber has the numerically smaller identifier after it.
C20_OrderKept ==
    pc = "renumbered" =>
        \A p \in ProblemDirs : \A q \in ProblemDirs :
            IntOf(doc.root[p].was) < IntOf(doc.root[q].was) => IntOf(p) < IntOf(q)

\* renumber has returned on the bank of the problems 2 and 10: problem 10 is
\* now 1, before problem 2
C20_Witness ==
    /\ pc = "renumbered"
    /\ DOMAIN doc.root = {<<"1">>, <<"2">>}
    /\ doc.root[<<"1">>].was = <<"1", "0">>
    /\ doc.root[<<"2">>].was = <<"2">>

\* renumber on a bank of problem directories whose names have one length
\* keeps the order of the problems
C20_SameWidthOrderKept ==
    pc = "renumbered" /\ SameWidth =>
        \A p \in ProblemDirs : \A q \in ProblemDirs :
            IntOf(doc.root[p].was) < IntOf(doc.root[q].was) => IntOf(p) < IntOf(q)

\* the names of the problem directories of a root directory
ProblemDirsOf(dir) ==
    {name \in DOMAIN dir : ~IsSkipped(dir, name) /\ dir[name].kind = "problem"}

\* the step is an insert that returned an identifier
InsertReturns == ret'.ids # ret.ids

\* the identifier the insert of this step returned
Returned == ret'.ids[Len(ret'.ids)]

\* C21: an insert that returns gives the new problem the largest numeric
\* identifier of the bank plus one, padded with zeros to the length of the
\* longest identifier, and copies the problem to a directory of that name,
\* which was not there.  Through any sequence of inserts the identifiers
\* returned are strictly increasing, every entry the bank had is as it was,
\* no two problem directories have the same number, and the bank loads when
\* the directory inserted holds a problem file.
C21_InsertAtEnd ==
    [][InsertReturns =>
          /\ ProblemDirs # {}
          /\ ret'.ids = Append(ret.ids, Returned)
          /\ IntOf(Returned) = Max({IntOf(name) : name \in ProblemDirs}) + 1
          /\ Len(Returned) = Max({Len(name) : name \in ProblemDirs} \cup {Len(Str(IntOf(Returned)))})
          /\ Returned \notin DOMAIN doc.root
          /\ DOMAIN doc'.root = DOMAIN doc.root \cup {Returned}
          /\ doc'.root[Returned].kind \in {"problem", "empty"}
          /\ \A name \in DOMAIN doc.root : doc'.root[name] = doc.root[name]
          /\ \A i \in 1..Len(ret.ids) : IntOf(ret.ids[i]) < IntOf(Returned)
          /\ \A a \in ProblemDirsOf(doc'.root) : \A b \in ProblemDirsOf(doc'.root) :
                IntOf(a) = IntOf(b) => a = b
          /\ doc'.root[Returned].kind = "problem" => Load(doc'.root, TRUE).exc = "none"]_vars

\* two inserts into a bank with the problem 004 have returned 005 and 006
C21_Witness ==
    /\ pc = "bank"
    /\ <<"0", "0", "4">> \in DOMAIN doc.root
    /\ ret.op = "insert"
    /\ ret.ids = <<<<"0", "0", "5">>, <<"0", "0", "6">>>>
    /\ {<<"0", "0", "5">>, <<"0", "0", "6">>} \subseteq DOMAIN doc.root

\* C22: load returns the problems sorted by identifier: whatever zero
\* padding the names of the problem directories have, pb.problems is in
\* ascending order of the numbers of the identifiers.
C22_SortedByNumber ==
    pc = "loaded" =>
        \A i \in 1..Len(ret.problems) : \A j \in 1..Len(ret.problems) :
            i < j => IntOf(ret.problems[i]) < IntOf(ret.problems[j])

\* load has returned the problems 10 and 2 in that order
C22_Witness ==
    /\ pc = "loaded"
    /\ ret.problems = <<<<"1", "0">>, <<"2">>>>

\* the order load gives the problems: that of their names as strings
C22_SortedByName ==
    pc = "loaded" =>
        /\ Range(ret.problems) = ProblemDirs
        /\ \A i \in 1..Len(ret.problems) : \A j \in 1..Len(ret.problems) :
              i < j => LexLess(ret.problems[i], ret.problems[j])

\* the directories load takes for problems: not skipped, with numeric names
Candidates == {name \in DOMAIN doc.root : ~IsSkipped(doc.root, name)}

\* a directory that is no problem: its name is not a number, or it holds
\* both problem files, none, or invalid metadata
Defects ==
    {name \in Candidates : ~IsNumeric(name) \/ doc.root[name].kind # "problem"}

\* two valid problems have the same number
DuplicateIdentifier ==
    \E a \in ProblemDirs : \E b \in ProblemDirs : a # b /\ IntOf(a) = IntOf(b)

\* C23: load with raise_on_error=False raises for no defective problem:
\* every error of a problem is returned in invalid_problems and every valid
\* problem in problems; with raise_on_error=True a defective problem makes
\* load raise ProblemError.
C23_ErrorsCollected ==
    ret.op = "load" =>
        IF ret.raise_on_error
        THEN IF Defects # {} \/ DuplicateIdentifier
             THEN pc = "raised" /\ raised.exc = "ProblemError"
             ELSE pc = "loaded" /\ Range(ret.problems) = ProblemDirs
        ELSE /\ pc = "loaded"
             /\ Defects \subseteq Range(ret.invalid_problems)
             /\ Range(ret.problems) \subseteq ProblemDirs

\* load with raise_on_error=False has raised ProblemError for two problem
\* directories with the same number
C23_Witness ==
    /\ ret.op = "load"
    /\ ~ret.raise_on_error
    /\ pc = "raised"
    /\ raised.exc = "ProblemError"
    /\ ret.why = "duplicate"
    /\ Defects = {}

\* what load does with the errors of problems: a directory whose name is
\* not a number and two valid problems of one number make it raise whatever
\* raise_on_error is; the other defects make it raise when raise_on_error
\* is true and are returned in invalid_problems otherwise
C23_LoadOutcome ==
    ret.op = "load" =>
        IF (\E name \in Candidates : ~IsNumeric(name)) \/ DuplicateIdentifier
              \/ (ret.raise_on_error /\ Defects # {})
        THEN pc = "raised" /\ raised.exc = "ProblemError"
        ELSE /\ pc = "loaded"
             /\ Range(ret.problems) = ProblemDirs
             /\ Range(ret.invalid_problems) = Defects

\* the content of a leaf that is allowed in a paragraph
Content(h, n) ==
    IF h[n].type \in TextTypes THEN h[n].attrs.text
    ELSE IF h[n].type = "InlineMath" THEN h[n].attrs.latex
    ELSE h[n].attrs.code

HasBreak(h, n) == CountFrom(Content(h, n), 1) > 0

\* the node handed to the pass stands whole in the tree it returned
IsWhole(n) == n \in Below(heap, out)

\* a and b are neighbours in one Paragraph of the returned tree
Together(a, b) ==
    \E q \in Below(heap, out) :
        /\ heap[q].type = "Paragraph"
        /\ \E j \in 1..(Len(heap[q].kids) - 1) :
              heap[q].kids[j] = a /\ heap[q].kids[j + 1] = b

\* the nodes allowed in a paragraph of the tree handed to the pass
EligibleIn == {n \in Below(heap, tree) : n # tree /\ IsEligible(heap, n)}

\* b follows a among the children of a node of the tree handed to the pass
Follows(a, b) ==
    \E p \in Below(heap, tree) :
        \E i \in 1..(Len(heap[p].kids) - 1) : heap[p].kids[i] = a /\ heap[p].kids[i + 1] = b

\* C24 as stated: only a NormalText is split at its double newlines; a
\* BoldText, ItalicText, InlineMath or InlineCode with a double newline in
\* its content is placed whole into one Paragraph and makes no break.
C24_OnlyNormalTextSplit ==
    pc = "returned" =>
        /\ \A n \in EligibleIn :
              IsWhole(n) <=> ~(heap[n].type = "NormalText" /\ HasBreak(heap, n))
        /\ \A a \in EligibleIn : \A b \in EligibleIn :
              Follows(a, b) /\ heap[a].type # "NormalText" /\ heap[b].type # "NormalText"
                 => Together(a, b)

\* C24, amended: the text nodes, NormalText, BoldText and ItalicText, are
\* split at their double newlines, each piece a node of the class of the
\* split node; an InlineMath or InlineCode with a double newline in its
\* content is placed whole into one Paragraph and makes no break: it stands
\* in one Paragraph with its unsplit neighbours of the run.
C24_TextNodesSplit ==
    pc = "returned" =>
        /\ \A n \in EligibleIn :
              IsWhole(n) <=> ~(heap[n].type \in TextTypes /\ HasBreak(heap, n))
        /\ \A a \in EligibleIn : \A b \in EligibleIn :
              Follows(a, b) /\ IsWhole(a) /\ IsWhole(b) => Together(a, b)
        /\ \A n \in EligibleIn :
              ~IsWhole(n) =>
                  Cardinality({c \in Below(heap, out) :
                                  /\ c \notin Below(heap, tree)
                                  /\ heap[c].type = heap[n].type})
                      >= CountFrom(Content(heap, n), 1) + 1

\* a BoldText and an InlineMath, each with a double newline, in a prob: the
\* BoldText has become two BoldTexts in two Paragraphs, the InlineMath
\* stands whole in the second
C24_Witness ==
    /\ pc = "returned"
    /\ Len(heap[tree].kids) = 2
    /\ heap[heap[tree].kids[1]].type = "BoldText"
    /\ heap[heap[tree].kids[2]].type = "InlineMath"
    /\ HasBreak(heap, heap[tree].kids[1])
    /\ HasBreak(heap, heap[tree].kids[2])
    /\ Len(heap[out].kids) = 2
    /\ [i \in 1..2 |-> heap[heap[heap[out].kids[2]].kids[i]].type] = <<"BoldText", "InlineMath">>
    /\ heap[heap[out].kids[2]].kids[2] = heap[tree].kids[2]

\* the children of n that are not allowed in a paragraph, in order
NonEligible(h, n) == SelectSeq(h[n].kids, LAMBDA k : ~IsEligible(h, k))

\* the children of m that are not Paragraphs, in order
NotParagraphs(h, m) == SelectSeq(h[m].kids, LAMBDA k : h[k].type # "Paragraph")

\* no Paragraph in the tree under n
ParagraphFree(h, n) == \A k \in Below(h, n) : h[k].type # "Paragraph"

RECURSIVE PassedThrough(_, _, _)
\* m has the class and the attribute values of n, and beside its Paragraphs
\* it holds, in order, for each child of n that is not allowed in a
\* paragraph the child itself when it is a leaf, and otherwise another node
\* that stands to the child as m stands to n
PassedThrough(h, n, m) ==
    /\ h[m].type = h[n].type
    /\ DOMAIN h[m].attrs = DOMAIN h[n].attrs
    /\ \A k \in DOMAIN h[n].attrs : h[m].attrs[k] = h[n].attrs[k]
    /\ LET as == NonEligible(h, n)
           bs == NotParagraphs(h, m)
       IN  /\ Len(bs) = Len(as)
           /\ \A i \in 1..Len(as) :
                 IF h[as[i]].type \in LeafTypes THEN bs[i] = as[i]
                 ELSE bs[i] # as[i] /\ PassedThrough(h, as[i], bs[i])

\* C25: the children that are not allowed in a paragraph pass through the
\* paragraph pass in place: a leaf (Code, DisplayMath, Image, TrueFalse) is in
\* the output as the object it was; a container (Subproblem, Solution,
\* MultipleChoices, MultipleSelect, Choice, FillInTheBlank) is replaced by
\* the result of the pass on it, a node of the same class with the same
\* attribute values (a Choice keeps its correct flag).
C25_PassThrough ==
    pc = "returned" /\ ParagraphFree(heap, tree) => PassedThrough(heap, tree, out)

\* a Solution whose text holds a double newline, followed by a Code, under
\* a Problem: the Solution has become another Solution with two Paragraphs
\* and the Code is the object it was
C25_Witness ==
    /\ pc = "returned"
    /\ heap[tree].type = "Problem"
    /\ Len(heap[tree].kids) = 2
    /\ heap[heap[tree].kids[1]].type = "Solution"
    /\ heap[heap[tree].kids[2]].type = "Code"
    /\ Len(heap[out].kids) = 2
    /\ heap[out].kids[1] # heap[tree].kids[1]
    /\ heap[heap[out].kids[1]].type = "Solution"
    /\ [i \in 1..2 |-> heap[heap[heap[out].kids[1]].kids[i]].type] = <<"Paragraph", "Paragraph">>
    /\ heap[out].kids[2] = heap[tree].kids[2]

\* two pieces of a text node joined again with a double newline
Joined(a, b) == <<a[1], <<a[2][1] \o <<NL, NL>> \o b[2][1]>>, <<>>>>

RECURSIVE Restore(_, _)
RECURSIVE RestoreKids(_, _, _, _)
\* the children ks with each Paragraph replaced by its children, and with
\* the last node of a Paragraph and the first node of the Paragraph that
\* follows it directly, the pieces of one split text node, joined again;
\* the other containers restored in the same way
RestoreKids(h, ks, acc, afterParagraph) ==
    IF ks = <<>> THEN acc
    ELSE IF h[Head(ks)].type = "Paragraph"
    THEN LET items == [i \in 1..Len(h[Head(ks)].kids) |-> Shape(h, h[Head(ks)].kids[i])]
         IN  IF afterParagraph /\ acc # <<>> /\ items # <<>>
             THEN RestoreKids(h, Tail(ks),
                      SubSeq(acc, 1, Len(acc) - 1)
                          \o <<Joined(acc[Len(acc)], items[1])>> \o Tail(items), TRUE)
             ELSE RestoreKids(h, Tail(ks), acc \o items, TRUE)
    ELSE RestoreKids(h, Tail(ks),
             Append(acc, IF h[Head(ks)].type \in LeafTypes THEN Shape(h, Head(ks))
                         ELSE Restore(h, Head(ks))), FALSE)

\* the tree under m with its Paragraphs unwrapped, as a value
Restore(h, m) ==
    <<h[m].type,
      [i \in 1..Len(Attrs(h[m].type)) |-> h[m].attrs[Attrs(h[m].type)[i]]],
      RestoreKids(h, h[m].kids, <<>>, FALSE)>>

RECURSIVE Closure(_, _, _)
\* S with what is reached from it in at most fuel steps of the relation kids
Closure(kids, S, fuel) ==
    IF fuel = 0 THEN S
    ELSE Closure(kids, S \cup UNION {kids[x] : x \in S}, fuel - 1)

\* the children of each object of the heap
KidsOf(h) == [n \in Ids(h) |-> Range(h[n].kids)]

\* the objects below n: its children, their children, and so on
Descendants(h, n) == Closure(KidsOf(h), KidsOf(h)[n], Len(h))

\* the classes whose objects an object of a class accepts as children
TypeKids == [t \in NodeTypes |-> {u \in NodeTypes : IsInstance(u, AllowedChildTypes(t))}]

\* the classes an object below an object of class t can have
TypeDescendants(t) == Closure(TypeKids, TypeKids[t], Cardinality(NodeTypes))

RECURSIVE HeightsFrom(_, _)
\* the length of the longest chain of classes, each accepted by the one
\* before it, that starts at each class, chains of more than fuel + 1
\* classes left out
HeightsFrom(H, fuel) ==
    IF fuel = 0 THEN H
    ELSE HeightsFrom([t \in NodeTypes |-> 1 + Max({H[u] : u \in TypeKids[t]} \cup {0})],
                     fuel - 1)

TypeHeights == HeightsFrom([t \in NodeTypes |-> 1], Cardinality(InternalTypes))

RECURSIVE DepthFrom(_, _, _)
\* the number of objects on the longest path down from n, paths of more
\* than fuel objects cut
DepthFrom(h, n, fuel) ==
    IF fuel = 0 THEN 0
    ELSE 1 + Max({DepthFrom(h, k, fuel - 1) : k \in Range(h[n].kids)} \cup {0})

Depth(h, n) == DepthFrom(h, n, Len(h) + 1)

\* C27: no sequence of constructions and add_child calls makes a cycle: no
\* object is below itself, because no class is below itself in the relation
\* of the allowed child types; so the depth of every tree is bounded, by the
\* longest chain of classes that starts at the class of its root.
C27_NoCycles ==
    /\ \A t \in InternalTypes : t \notin TypeDescendants(t)
    /\ \A n \in Ids(heap) : n \notin Descendants(heap, n)
    /\ \A n \in Ids(heap) : Depth(heap, n) <= TypeHeights[heap[n].type]

\* an add_child that would have closed a cycle, the child being above the
\* parent, was refused
C27_Witness ==
    /\ ret.op = "add_child"
    /\ ret.exc # "none"
    /\ ret.node \in Descendants(heap, ret.child)
    /\ Depth(heap, ret.child) = Len(heap)

\* renumber has loaded the bank
InRenumber == pc \in {"loop", "moved", "renumbered"}

\* the problem directories that have another name than they had
Renamed == {name \in ProblemDirs : doc.root[name].was # name}

\* the callback is called in this step
CallbackCalled == InRenumber /\ ret'.moves # ret.moves

\* the root directory as it was before renumber
Original ==
    [w \in {doc.root[name].was : name \in DOMAIN doc.root} |->
        [kind |-> doc.root[CHOOSE name \in DOMAIN doc.root : doc.root[name].was = w].kind,
         was |-> w]]

\* C28: during renumber the callback is called exactly once for each
\* problem whose directory is renamed, with the old and the new identifier,
\* and only after the directory has been moved; it is never called for a
\* problem left in place, and the calls are in ascending order of the new
\* identifier.
C28_CallbackPerMove ==
    /\ [](InRenumber =>
            /\ \A k \in 1..Len(ret.moves) :
                  /\ ret.moves[k][2] \in Renamed
                  /\ doc.root[ret.moves[k][2]].was = ret.moves[k][1]
            /\ \A j \in 1..Len(ret.moves) : \A k \in 1..Len(ret.moves) :
                  j < k => /\ IntOf(ret.moves[j][2]) < IntOf(ret.moves[k][2])
                           /\ ret.moves[j][1] # ret.moves[k][1]
            /\ Cardinality(Renamed) = Len(ret.moves) + (IF pc = "moved" THEN 1 ELSE 0)
            /\ pc = "renumbered" =>
                  RenumberFrom(Original, Load(Original, TRUE).problems, 1, <<>>)
                      = [dir |-> doc.root, moves |-> ret.moves])
    /\ [][CallbackCalled =>
            /\ pc = "moved"
            /\ \E old \in Range(ret.problems) : \E new \in Renamed :
                  /\ ret'.moves = Append(ret.moves, <<old, new>>)
                  /\ old \notin DOMAIN doc.root
                  /\ doc.root[new].was = old
                  /\ \A k \in 1..Len(ret.moves) : ret.moves[k][2] # new]_vars

\* renumber has returned on the bank of the problems 2 and 3 beside a file
\* named 4: two moves, the second to the name the first had left, two calls
C28_Witness ==
    /\ pc = "renumbered"
    /\ ret.moves = << << <<"2">>, <<"1">> >>, << <<"3">>, <<"2">> >> >>
    /\ DOMAIN doc.root = {<<"1">>, <<"2">>, <<"4">>}

\* a directory is moved in this step
Moves == doc'.root # doc.root

\* C30: renumber never loses or overwrites a problem: at every step a
\* directory is moved only to a name that does not exist at that time, so
\* after any run of renumber, complete or interrupted after any number of
\* moves, the bank holds as many problem directories as before, with the
\* contents they had, each under exactly one name.
C30_NothingLost ==
    /\ [](InRenumber =>
            /\ Cardinality(ProblemDirs) = Len(ret.problems)
            /\ Before = Range(ret.problems)
            /\ \A p \in ProblemDirs : \A q \in ProblemDirs :
                  doc.root[p].was = doc.root[q].was => p = q
            /\ \A name \in DOMAIN doc.root \ ProblemDirs : doc.root[name].was = name)
    /\ [][Moves =>
            \E old \in DOMAIN doc.root : \E new \in DOMAIN doc'.root :
                /\ new \notin DOMAIN doc.root
                /\ DOMAIN doc'.root = (DOMAIN doc.root \ {old}) \cup {new}
                /\ doc'.root[new] = doc.root[old]
                /\ \A name \in DOMAIN doc.root \ {old} : doc'.root[name] = doc.root[name]]_vars

\* renumber on the bank of the problems 2 and 3, stopped after the second
\* move and before the second call: the problems are there as 1 and 2
C30_Witness ==
    /\ pc = "moved"
    /\ Len(ret.moves) = 1
    /\ ret.problems = << <<"2">>, <<"3">> >>
    /\ ProblemDirs = {<<"1">>, <<"2">>}
    /\ doc.root[<<"1">>].was = <<"2">>
    /\ doc.root[<<"2">>].was = <<"3">>

\* a Paragraph with at least one child is in the tree under n
HasFullParagraph(h, n) ==
    \E k \in Below(h, n) : h[k].type = "Paragraph" /\ h[k].kids # <<>>

\* C29: the paragraph pass on a tree that holds a Paragraph with at least
\* one child, the tree the pass itself returned for instance, fails with
\* IllegalChild: the pass makes a new Paragraph of the children and attaches
\* it to the copy of the Paragraph.  On every other tree the pass returns,
\* so it is defined on the trees without such a Paragraph only and applying
\* it twice is not applying it once.
C29_ParagraphRefused ==
    pc \in {"returned", "raised"} =>
        /\ pc = "raised" <=> HasFullParagraph(heap, tree)
        /\ pc = "raised" => raised.exc = "IllegalChild" /\ out = 0

\* the pass on the tree it returned has failed with IllegalChild
C29_Witness ==
    /\ ret.op = "again"
    /\ pc = "raised"
    /\ raised.exc = "IllegalChild"
    /\ heap[tree].type = "Problem"
    /\ \E i \in 1..Len(heap[tree].kids) : heap[heap[tree].kids[i]].type = "Paragraph"

=============================================================================
